---------------------------- MODULE MCReviewFlow ----------------------------
(* An image with a critical and a plain finding under ten submissions of   *)
(* two users, and every line of up to three fields under no review.        *)
EXTENDS ReviewFlow, TLC

Alice == {"analyze", "redact", "verify", "review.accept", "review.reject", "review.manual_detect"}
MCPermissions == [alice |-> Alice, bob |-> {"analyze", "redact", "review.accept"}]

About(d, status) == [det |-> d, status |-> status, source |-> "none", type |-> "none",
                     box |-> Box(1, 1, 1)]
Add(type, box) == [det |-> 0, status |-> "none", source |-> "MANUAL", type |-> type, box |-> box]

\* Finding 1 is the ID, finding 2 the phone number.
Submit(items) == [items |-> items, fits |-> TRUE]
MCSubmissions ==
  {Submit(<<About(1, "REJECTED"), About(2, "REJECTED")>>),
   Submit(<<About(2, "REJECTED"), About(2, "ACCEPTED")>>),
   Submit(<<About(2, "ACCEPTED"), About(2, "REJECTED")>>),
   Submit(<<About(1, "ACCEPTED")>>),
   Submit(<<About(3, "REJECTED")>>),
   Submit(<<Add("TaiwanID", Box(1, 6, 6)), Add("TaiwanID", Box(1, 5, 5)), Add("Passport", Box(1, 5, 6))>>),
   Submit(<<Add("TaiwanID", Box(1, 5, 6)), Add("TaiwanID", Box(1, 6, 7))>>),
   Submit(<<Add("Phone", Box(1, 4, 7)), About(2, "REJECTED")>>),
   Submit(<<Add("Phone", Box(1, 4, 9))>>),
   [items |-> <<>>, fits |-> FALSE]}

AllLayers == {"regex", "context", "keyword", "ai", "rules"}

Reviews == [image : {<<<<"taiwanId", "word", "word", "phone">>>>}, on : {AllLayers \ {"rules"}},
            strict : BOOLEAN, users : {{"alice", "bob"}}, submissions : {MCSubmissions}]

Fields == {<<"nameLabel", "colon", "fullName">>, <<"phoneLabel", "colon", "phone">>,
           <<"phoneLabel", "colon", "fullName">>, <<"password", "colon">>,
           <<"passportLabel", "colon", "passport">>, <<"garbledLabel", "colon", "passport">>,
           <<"name1", "name2", "colon", "word">>, <<"garbledLabel", "colon", "cardHalf">>,
           <<"password", "colon", "secret">>, <<"password", "colon", "fullName">>,
           <<"secret">>, <<"taiwanId">>, <<"phone">>, <<"cardHalf">>, <<"fullName">>, <<"word">>}

Lines == {a \o b \o c : a \in Fields, b \in Fields \cup {<<>>}, c \in Fields \cup {<<>>}}

Analyses == [image : {<<ts>> : ts \in Lines} \cup {<<a, b>> : a, b \in Fields},
             on : {AllLayers, AllLayers \ {"ai"}, {"regex"}},
             strict : {TRUE}, users : {{}}, submissions : {{}}]

MCScenarios == Reviews \cup Analyses

RequestsAlike == Permutations(Requests)
=============================================================================
