----------------------------- MODULE RuleEngine -----------------------------
(***************************************************************************)
(* WAF rules on their way from the control plane to a verdict: converted   *)
(* one by one (snapshotFromDomainsResponse), stored in the order of a map  *)
(* (applySnapshotToDB), sorted and evaluated (waf.Engine).                 *)
(*                                                                         *)
(* A name is a sequence: a word and the numbers behind it. Rules without a *)
(* name or an expression, or with a scope nobody knows, are left out by    *)
(* the conversion and here; a scope is part of the name and of the         *)
(* expression. The expressions are a library's: a rule matches a request,  *)
(* does not, or fails.                                                     *)
(***************************************************************************)
EXTENDS Orders, Functions, SequencesExt

CONSTANTS
  OwnName,   \* what a rule may be called, some of it with a number
  MaxRules   \* bound: rules of a response

ASSUME RulesAssumption == OwnName \subseteq Seq(Nat) /\ MaxRules \in Nat

VARIABLES
  records,    \* the rules of a response that have been converted
  usedNames,  \* usedRuleNames
  converted,  \* snapshot.WAFRules: from keys to names
  ruleTable   \* waf_rules, in the order of the ids

ruleVars == <<records, usedNames, converted, ruleTable>>

NoId == << >>
Record == [name : OwnName, id : OwnName \cup {NoId}]

Verdicts == [priority : 1 .. 2, action : {"ALLOW", "BLOCK", "LOG"}, outcome : {"matches", "differs", "fails"}]

RulesTypeOK ==
  /\ records \in Seq(Record)
  /\ usedNames \in [OwnName -> Nat]
  /\ ruleTable \in Seq(Verdicts)

RulesInit ==
  /\ records = << >>
  /\ usedNames = [n \in OwnName |-> 0]
  /\ converted = << >>
  /\ ruleTable = << >>

\* A key that another rule has gets the first number that makes it new, which
\* is written otherwise than in names.
NumberedKey(base, k) == base \o <<0, k>>
NewKey(base) ==
  IF base \notin DOMAIN converted THEN base
  ELSE NumberedKey(base, CHOOSE k \in 2 .. MaxRules + 1 :
         /\ NumberedKey(base, k) \notin DOMAIN converted
         /\ \A j \in 2 .. k - 1 : NumberedKey(base, j) \in DOMAIN converted)

\* Mutant: a rule that has no key of its own takes another's.
ConvertAtName(record) ==
  LET count == usedNames[record.name] + 1
      name == IF count > 1 THEN Append(record.name, count) ELSE record.name
      base == IF record.id # NoId THEN record.id ELSE name
  IN /\ ruleTable = << >> /\ Len(records) < MaxRules
     /\ records' = Append(records, record)
     /\ usedNames' = [usedNames EXCEPT ![record.name] = count]
     /\ converted' = [k \in DOMAIN converted \cup {base} |-> IF k = base THEN name ELSE converted[k]]
     /\ UNCHANGED ruleTable

\* One rule of the response.
Convert(record) ==
  LET count == usedNames[record.name] + 1
      name == IF count > 1 THEN Append(record.name, count) ELSE record.name
      key == NewKey(IF record.id # NoId THEN record.id ELSE name)
  IN /\ ruleTable = << >> /\ Len(records) < MaxRules
     /\ records' = Append(records, record)
     /\ usedNames' = [usedNames EXCEPT ![record.name] = count]
     /\ converted' = [k \in DOMAIN converted \cup {key} |-> IF k = key THEN name ELSE converted[k]]
     /\ UNCHANGED ruleTable

\* One rule of a snapshot is inserted; its name and key matter no longer.
StoreRule(rule) ==
  /\ records = << >> /\ Len(ruleTable) < MaxRules
  /\ ruleTable' = Append(ruleTable, rule)
  /\ UNCHANGED <<records, usedNames, converted>>

RulesNext ==
  \/ \E record \in Record : Convert(record)
  \/ \E rule \in Verdicts : StoreRule(rule)

RulesSpec == RulesInit /\ [][RulesNext]_ruleVars
-----------------------------------------------------------------------------
\* Engine.Reload: ORDER BY priority DESC, id ASC.
RuleOrder ==
  {p \in (DOMAIN ruleTable) \X (DOMAIN ruleTable) :
     \/ ruleTable[p[1]].priority > ruleTable[p[2]].priority
     \/ ruleTable[p[1]].priority = ruleTable[p[2]].priority /\ p[1] < p[2]}

Evaluated ==
  LET ids == Sorted(DOMAIN ruleTable, RuleOrder)
  IN [k \in DOMAIN ids |-> ruleTable[ids[k]]]

Matches(rule) == rule.outcome = "matches"
Decides(rule) == Matches(rule) /\ rule.action \in {"ALLOW", "BLOCK"}

\* Mutant: a rule that matches and has no such action ends the evaluation.
WafVerdictStopping ==
  LET first == SelectInSeq(Evaluated, Matches)
  IN IF first = 0 THEN "ALLOW" ELSE Evaluated[first].action

\* Engine.Check: the first rule that matches and says what to do.
WafVerdict ==
  LET first == SelectInSeq(Evaluated, Decides)
  IN IF first = 0 THEN "ALLOW" ELSE Evaluated[first].action
-----------------------------------------------------------------------------
\* No rule of a response is lost for another's key, and two have one name, for
\* which the table would refuse the whole snapshot, exactly if one is called what
\* another's duplicate is renamed to.
RulesKept ==
  LET own == {records[i].name : i \in DOMAIN records}
      renamed == UNION {{Append(n, k) : k \in 2 .. usedNames[n]} : n \in own}
  IN /\ Cardinality(DOMAIN converted) = Len(records)
     /\ own \cup renamed = {converted[key] : key \in DOMAIN converted}
     /\ IsInjective(converted) <=> own \cap renamed = {}

\* The verdict is that of a decisive rule of the highest priority, whatever order
\* the rules were stored in: it is open only between rules of equal priority that
\* say different things, where the order of a map decides.
FirstMatchDecides ==
  LET decisive == {rule \in ToSet(ruleTable) : Decides(rule)}
      first == {rule \in decisive : \A other \in decisive : rule.priority >= other.priority}
  IN WafVerdict \in {rule.action : rule \in first} \cup {a \in {"ALLOW"} : decisive = {}}
=============================================================================
