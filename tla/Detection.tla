------------------------------ MODULE Detection ------------------------------
(***************************************************************************)
(* The detectors of maskguard/detection and Pipeline._detect, which runs   *)
(* them in turn and hands what they found to RiskPolicy.                   *)
(*                                                                         *)
(* An image is a sequence of lines and a line the sequence of its OCR      *)
(* tokens, left to right; the k-th token covers the k-th cell of its line, *)
(* so a token's box is one cell and merged boxes are runs of cells.  A     *)
(* token is its kind: what the patterns, the label and keyword lists and   *)
(* the shape checks can tell of its text.                                  *)
(*                                                                         *)
(*   CJK      nameLabel (姓名), name1 name2 (the same in two tokens),        *)
(*            phoneLabel, passportLabel, garbledLabel (no known label),    *)
(*            fullName (a surname and two characters)                      *)
(*   ASCII    password (the keyword), secret (long, high entropy),         *)
(*            taiwanId, passport, phone (ten digits), cardHalf (eight      *)
(*            digits; two in a row pass the Luhn check, no other run of    *)
(*            digits here does), word (a rule's keyword)                   *)
(*   colon    any of its variants                                          *)
(*                                                                         *)
(* The other single-token formats (e-mail, JWT, URL, ...) are found like   *)
(* taiwanId, the other labels like these.                                  *)
(***************************************************************************)
EXTENDS RiskPolicy, FiniteSets

Cjk == {"nameLabel", "name1", "name2", "phoneLabel", "passportLabel", "garbledLabel", "fullName"}
Ascii == {"password", "secret", "taiwanId", "passport", "phone", "cardHalf", "word"}
TokenKinds == Cjk \cup Ascii \cup {"colon"}

\* The characters of a CJK token; any of them is at most _MAX_TOKEN_CJK_LEN.
Chars(kind) == CASE kind \in {"name1", "name2"} -> 1
                 [] kind = "fullName" -> 3
                 [] OTHER -> 2

Digits(kind) == CASE kind = "phone" -> 10 [] kind = "cardHalf" -> 8 [] OTHER -> 0

\* merge_bounding_boxes of the tokens from a to b.
Box(line, a, b) == [line |-> line, x |-> a, width |-> b - a + 1]

Found(type, conf, box, layer, unknown) ==
  [type |-> type, conf |-> conf, box |-> box, risk |-> "LOW", action |-> "NONE",
   layers |-> {layer}, unknown |-> unknown, needsReview |-> FALSE, legible |-> TRUE]

OnEveryLine(image, Detector(_, _)) ==
  FlattenSeq([l \in DOMAIN image |-> Detector(l, image[l])])

\* The places of S, left to right.
InOrder(S) ==
  LET upTo[n \in 0..Max(S \cup {0})] ==
        IF n = 0 THEN <<>> ELSE IF n \in S THEN Append(upTo[n - 1], n) ELSE upTo[n - 1]
  IN  upTo[Max(S \cup {0})]

-----------------------------------------------------------------------------
(***************************************************************************)
(* RegexDetector.  finditer scans left to right: what one match consumed,  *)
(* the next cannot use, whether or not the match is kept.                  *)
(***************************************************************************)
\* Where the matches of a pattern start; ends[i] is where one that starts at token
\* i ends, 0 if none does.
FindIter(ends) ==
  CHOOSE starts \in SUBSET {i \in DOMAIN ends : ends[i] > 0} :
    \A i \in {j \in DOMAIN ends : ends[j] > 0} :
      i \in starts <=> ~\E j \in starts : j < i /\ i <= ends[j]

\* normalize_for_context drops the space between two tokens of which neither is
\* ASCII there: [^\s] runs on to the end of such a run.
GluedEnd(ts, i) ==
  IF ts[i] \in Ascii THEN i
  ELSE Max({j \in i..Len(ts) : \A k \in i..j : ts[k] \notin Ascii})

\* At least four characters without a space.
LongEnough(ts, i) ==
  \/ ts[i] \in Ascii
  \/ 4 <= FoldLeft(LAMBDA n, kind : n + IF kind = "colon" THEN 1 ELSE Chars(kind), 0,
                   SubSeq(ts, i, GluedEnd(ts, i)))

SecretEnd(ts, i) ==
  IF /\ ts[i] = "password" /\ i + 2 <= Len(ts) /\ ts[i + 1] = "colon"
     /\ LongEnough(ts, i + 2)
  THEN GluedEnd(ts, i + 2) ELSE 0

TaiwanIdEnd(ts, i) == IF ts[i] = "taiwanId" THEN i ELSE 0
PhoneEnd(ts, i) == IF ts[i] = "phone" THEN i ELSE 0

\* Thirteen to nineteen digits in whole tokens: two tokens, for one has fewer and
\* three have more.
CardEnd(ts, i) ==
  IF i < Len(ts) /\ Digits(ts[i]) + Digits(ts[i + 1]) \in 13..19 THEN i + 1 ELSE 0

LuhnValid(ts, i) == SubSeq(ts, i, i + 1) = <<"cardHalf", "cardHalf">>

\* What the matches that start at the places of starts say; the value is without the
\* first skip tokens of its match.
Matches(l, type, conf, skip, ends, starts) ==
  LET at == InOrder(starts)
  IN  [k \in DOMAIN at |->
         Found(type, conf, Box(l, at[k] + skip, ends[at[k]]), "regex", FALSE)]

RegexLine(l, ts) ==
  LET secrets == [i \in DOMAIN ts |-> SecretEnd(ts, i)]
      ids == [i \in DOMAIN ts |-> TaiwanIdEnd(ts, i)]
      phones == [i \in DOMAIN ts |-> PhoneEnd(ts, i)]
      cards == [i \in DOMAIN ts |-> CardEnd(ts, i)]
  IN  Matches(l, "SecretKeyValue", 90, 2, secrets, FindIter(secrets))
      \o Matches(l, "TaiwanID", 85, 0, ids, FindIter(ids))
      \o Matches(l, "PhoneTW", 85, 0, phones, FindIter(phones))
      \o Matches(l, "CreditCard", 93, 0, cards, {i \in FindIter(cards) : LuhnValid(ts, i)})

-----------------------------------------------------------------------------
(***************************************************************************)
(* ContextDetector: the first label with a colon classifies all that       *)
(* follows on its line.                                                    *)
(***************************************************************************)
\* Where the label that starts at i ends, 0 if none does; two CJK tokens are glued.
LabelEnd(ts, i) ==
  CASE ts[i] \in {"nameLabel", "phoneLabel", "passportLabel"} -> i
    [] ts[i] = "name1" /\ i < Len(ts) /\ ts[i + 1] = "name2" -> i + 1
    [] OTHER -> 0

LabelType(kind) == CASE kind = "phoneLabel" -> "Phone"
                     [] kind = "passportLabel" -> "Passport"
                     [] OTHER -> "PersonalName"

Labels(ts) == {i \in DOMAIN ts : /\ LabelEnd(ts, i) > 0 /\ LabelEnd(ts, i) + 2 <= Len(ts)
                                 /\ ts[LabelEnd(ts, i) + 1] = "colon"}

ContextLine(l, ts) ==
  IF Labels(ts) = {} THEN <<>>
  ELSE LET i == Min(Labels(ts))
       IN  <<Found(LabelType(ts[i]), 75, Box(l, LabelEnd(ts, i) + 2, Len(ts)), "context", FALSE)>>

-----------------------------------------------------------------------------
(***************************************************************************)
(* CandidateValueDetector: a value of a plausible shape after a colon and  *)
(* a run of CJK tokens, whatever they say.                                 *)
(***************************************************************************)
CandidateType(kind) == CASE kind \in {"phone", "cardHalf"} -> "BankAccount"
                         [] kind \in {"passport", "taiwanId"} -> "Passport"
                         [] OTHER -> "none"

\* The characters of the CJK run that ends just before i.
CjkRunLength(ts, i) ==
  LET starts == {j \in 1..(i - 1) : \A k \in j..(i - 1) : ts[k] \in Cjk}
  IN  IF starts = {} THEN 0
      ELSE FoldLeft(LAMBDA n, kind : n + Chars(kind), 0, SubSeq(ts, Min(starts), i - 1))

CandidateLine(l, ts) ==
  LET values == InOrder({i \in DOMAIN ts : /\ i > 2 /\ ts[i - 1] = "colon"
                                            /\ CandidateType(ts[i]) # "none"
                                            /\ CjkRunLength(ts, i - 1) \in 2..6})
  IN  [k \in DOMAIN values |->
         Found(CandidateType(ts[values[k]]), 50, Box(l, values[k], values[k]),
               "candidate_value", TRUE)]

\* The members of a list at the places of S.
Those(list, S) == [k \in DOMAIN InOrder(S) |-> list[InOrder(S)[k]]]

UnclaimedLines(candidates, existing) ==
  Those(candidates, {k \in DOMAIN candidates :
                       \A i \in DOMAIN existing : existing[i].box.line # candidates[k].box.line})

\* filter_unclaimed: whoever found anything there, of whatever type, wins.
Unclaimed(candidates, existing) ==
  Those(candidates, {k \in DOMAIN candidates :
                       \A i \in DOMAIN existing : ~Overlap(candidates[k].box, existing[i].box)})

-----------------------------------------------------------------------------
\* KeywordDetector: the keywords of a line, "at" keeps two of them apart.
KeywordsOfLine(l, ts) ==
  {[line |-> l, critical |-> ts[i] \in {"password", "passportLabel"}, at |-> i] :
     i \in {j \in DOMAIN ts : ts[j] = "password" \/ LabelEnd(ts, j) > 0}}

KeywordHits(image) == UNION {KeywordsOfLine(l, image[l]) : l \in DOMAIN image}

\* LocalAiDetector: bare names, by surname, and opaque values on a line with a
\* credential's keyword.
BareNames(l, ts) ==
  LET names == InOrder({i \in DOMAIN ts : ts[i] = "fullName"})
  IN  [k \in DOMAIN names |-> Found("PersonalName", 45, Box(l, names[k], names[k]), "ai", TRUE)]

OpaqueSecrets(l, ts) ==
  LET values == InOrder({i \in DOMAIN ts : ts[i] = "secret" /\ "password" \in ToSet(ts)})
  IN  [k \in DOMAIN values |-> Found("OpaqueSecret", 50, Box(l, values[k], values[k]), "ai", TRUE)]

\* UserRuleDetector with one rule for the keyword "word": find() sees the first
\* one of a line.  The rule brings its own risk and action.
UserRuleLine(l, ts) ==
  IF "word" \notin ToSet(ts) THEN <<>>
  ELSE <<[Found("UserRule", 90, Box(l, Min({i \in DOMAIN ts : ts[i] = "word"}),
                                    Min({i \in DOMAIN ts : ts[i] = "word"})),
                "user_rule", FALSE)
          EXCEPT !.risk = "HIGH", !.action = "BLUR"]>>

Canonical(d) == IF d.type = "PhoneTW" THEN [d EXCEPT !.type = "Phone"] ELSE d

\* The detectors a configuration has switched on; with keywords off there are no hits.
Hits(image, on) == IF "keyword" \in on THEN KeywordHits(image) ELSE {}
If(on, layer, found) == IF layer \in on THEN found ELSE <<>>

\* Found by pattern or label, before anything is guessed.
Classified(image, on) == If(on, "regex", OnEveryLine(image, RegexLine))
                         \o If(on, "context", OnEveryLine(image, ContextLine))

Guesses(image, on) == If(on, "context", OnEveryLine(image, CandidateLine))

\* Pipeline._detect
Detect(image, on) ==
  LET found == Classified(image, on)
               \o Unclaimed(Guesses(image, on), Classified(image, on))
               \o If(on, "ai", OnEveryLine(image, BareNames))
               \o (IF {"ai", "keyword"} \subseteq on
                   THEN OnEveryLine(image, OpaqueSecrets) ELSE <<>>)
               \o If(on, "rules", OnEveryLine(image, UserRuleLine))
  IN  [i \in DOMAIN found |-> Canonical(found[i])]
=============================================================================
