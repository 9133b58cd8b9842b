------------------------------- MODULE Judge -------------------------------
(***************************************************************************)
(* The confirmation rule of transactions.py, as pure operators: what the   *)
(* evidence read after one paid tap supports.  A reading that could not be *)
(* taken (None in the code) is Unknown; the effect on the bought item is   *)
(* "changed", "unchanged" or "unread" (True, False, None in the code).     *)
(***************************************************************************)
EXTENDS Integers

Unknown == -1

Effects  == {"changed", "unchanged", "unread"}
Verdicts == {"bought", "free", "refuted", "unproven"}

\* abbreviation_slack: the header shows two decimals of a thousand, a
\* million, ...  so a reading of seven to nine digits hides up to 10,000.
AbbreviationSlack(value) ==
  IF value < 1000 THEN 0
  ELSE LET group == CHOOSE g \in 1..3 :
                      10^(3 * g) <= value /\ (g = 3 \/ value < 10^(3 * (g + 1)))
       IN  10^(3 * group - 2)

\* reading_tolerance of the two wallet readings of one purchase.
ReadingTolerance(before, after) ==
  AbbreviationSlack(before) + AbbreviationSlack(after)

Distance(a, b) == IF a < b THEN b - a ELSE a - b

Outcome(verdict, spent) == [verdict |-> verdict, spent |-> spent]
Unproven == Outcome("unproven", Unknown)
Refuted  == Outcome("refuted", 0)

\* judge: every rule that books the read price comes first, then a debit of
\* unknown size, then the refutation; everything else stays unproven.
Judge(price, before, after, effect, inCatalog, workshop, rowProves) ==
  LET both  == before # Unknown /\ after # Unknown
      drop  == before - after
      slack == ReadingTolerance(before, after)
      free  == price = 0 /\ both /\ drop = 0
      exact == both /\ drop = price
      near  == /\ both /\ drop > 0
               /\ inCatalog \/ (slack < price /\ Distance(drop, price) <= slack)
      level == /\ workshop /\ price > 0
               /\ \/ both /\ drop = 0 /\ rowProves /\ price <= slack
                  \/ before # Unknown /\ after = Unknown
                  \/ both /\ 0 < drop /\ drop <= price + slack
  IN  IF effect = "changed" /\ free
        THEN Outcome("free", 0)
      ELSE IF effect = "changed" /\ price # Unknown /\ (exact \/ near \/ level)
        THEN Outcome("bought", price)
      ELSE IF effect = "changed" /\ both /\ drop > 0
        THEN Outcome("bought", Unknown)
      ELSE IF effect = "unchanged" /\ both /\ drop = 0
        THEN Refuted
      ELSE Unproven
=============================================================================
