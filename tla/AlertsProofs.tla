---------------------------- MODULE AlertsProofs ----------------------------
(***************************************************************************)
(* For any number of servers, rules, nodes and severities: what the        *)
(* receiver of the webhook is told, and which edits of rules stay.         *)
(***************************************************************************)
EXTENDS Alerts, TLAPS

\* There is a first rule and node.
LEMMA Places == Rules * Nodes \in Nat /\ 1 \in 1..(Rules * Nodes)
<1>1. Rules * Nodes \in Nat
  BY AlertsAssumption
<1>2. Rules * Nodes >= 1
  BY AlertsAssumption
<1>3. QED
  BY <1>1, <1>2

\* What a run that is not under way holds.
LEMMA UnreadType == Unread \in [Rule -> Setting]
<1>1. PICK v \in Severity : TRUE
  BY AlertsAssumption
<1>2. [enabled |-> TRUE, severity |-> v] \in Setting
  BY <1>1 DEF Setting
<1>3. (CHOOSE setting \in Setting : TRUE) \in Setting
  BY <1>2
<1>4. QED
  BY <1>3 DEF Unread

\* The two loops of Run stay within the rules and the nodes.
LEMMA RuleAtType == \A i \in 1..(Rules * Nodes) : RuleAt(i) \in Rule
<1> SUFFICES ASSUME NEW i \in 1..(Rules * Nodes) PROVE RuleAt(i) \in Rule
  OBVIOUS
<1> DEFINE q == (i - 1) \div Nodes
<1>1. Rules * Nodes \in Nat /\ i - 1 \in Nat
  BY AlertsAssumption
<1>2. q \in Nat /\ Nodes * q <= i - 1
  BY <1>1, AlertsAssumption
<1>3. q < Rules
  BY <1>1, <1>2, AlertsAssumption
<1>4. QED
  BY <1>2, <1>3, AlertsAssumption DEF RuleAt, Rule

\* Return, for the type invariant.
LEMMA ReturnType ==
    ASSUME TypeOK, NEW s \in Server, Return(s)
    PROVE  /\ pc' \in [Server -> {"idle", "observe", "reconcile"}]
           /\ at' \in [Server -> 1..(Rules * Nodes)]
           /\ rules' \in [Server -> [Rule -> Setting]]
           /\ findings' \in [Server -> SUBSET Fingerprint]
           /\ \A t \in Server : findings'[t] \subseteq Of(at'[t])
<1>1. \A t \in Server : findings'[t] = IF t = s THEN {} ELSE findings[t]
  BY DEF Return, TypeOK
<1>2. \A t \in Server : at'[t] = IF t = s THEN 1 ELSE at[t]
  BY DEF Return, TypeOK
<1>3. \A t \in Server : findings'[t] \subseteq Of(at'[t])
  BY <1>1, <1>2 DEF TypeOK
<1>4. QED
  BY <1>3, Places, UnreadType DEF Return, TypeOK

\* What ApplyFinding and ApplyMissing do to an alert.
LEMMA Applied ==
    ASSUME NEW a \in [severity : Severity \cup {0}, missing : 0..1], NEW v \in Severity
    PROVE  /\ ApplyFinding(a, v) \in [severity : Severity \cup {0}, missing : 0..1]
           /\ ApplyFinding(a, v).severity = IF v > a.severity THEN v ELSE a.severity
           /\ ApplyMissing(a) \in [severity : Severity \cup {0}, missing : 0..1]
           /\ ApplyMissing(a).severity \in {0, a.severity}
BY AlertsAssumption DEF ApplyFinding, ApplyMissing, NoAlert

\* Types: alerts have a known severity and at most one missed window, and a run
\* finds fingerprints of its rule and node only (repository.go:40, store.go:43-54).
LEMMA TypeInvariant == Spec => []TypeOK
<1>1. Init => TypeOK
  <2> SUFFICES ASSUME Init PROVE TypeOK
    OBVIOUS
  <2>1. QED
    BY Places, UnreadType, AlertsAssumption DEF Init, TypeOK, NoAlert
<1>2. TypeOK /\ [Next]_vars => TypeOK'
  <2> SUFFICES ASSUME TypeOK, [Next]_vars PROVE TypeOK'
    OBVIOUS
  <2>1. CASE Operator
    <3>0. PICK edited \in SUBSET Rule : \E request \in [edited -> Setting] : UpdateAlertRules(request)
      BY <2>1 DEF Operator
    <3>1. PICK request \in [edited -> Setting] : UpdateAlertRules(request)
      BY <3>0
    <3>2. rule' \in [Rule -> Setting] /\ wanted' \in [Rule -> Setting]
      BY <3>1 DEF UpdateAlertRules, TypeOK
    <3>3. exposed' \in [Rule -> BOOLEAN]
      BY <3>1 DEF UpdateAlertRules, TypeOK
    <3>4. edits' \in 0..MaxEdits
      BY <3>1, AlertsAssumption DEF UpdateAlertRules, TypeOK
    <3>5. UNCHANGED <<cond, changes, fails, pc, at, rules, findings, alert, told>>
      BY <3>1 DEF UpdateAlertRules, runVars
    <3>6. QED
      BY <3>2, <3>3, <3>4, <3>5 DEF TypeOK
  <2>2. CASE \E k \in Fingerprint : Change(k)
    <3>1. PICK k \in Fingerprint : Change(k)
      BY <2>2
    <3>2. QED
      BY <3>1, AlertsAssumption DEF Change, TypeOK, ruleVars, runVars
  <2>3. ASSUME NEW s \in Server, Run(s) PROVE TypeOK'
    BY <2>3 DEF Run, TypeOK, ruleVars
  <2>4. ASSUME NEW s \in Server, Observations(s) PROVE TypeOK'
    <3>1. findings'[s] \subseteq Of(at'[s])
      BY <2>4 DEF Observations, EvaluateRule, TypeOK
    <3>2. \A t \in Server : findings'[t] \subseteq Of(at'[t])
      BY <2>4, <3>1 DEF Observations, TypeOK
    <3>3. findings' \in [Server -> SUBSET Fingerprint]
      BY <2>4, <3>1 DEF Observations, TypeOK, Of
    <3>4. QED
      BY <2>4, <3>2, <3>3 DEF Observations, TypeOK, ruleVars
  <2>5. ASSUME NEW s \in Server, Reconcile(s) PROVE TypeOK'
    <3> DEFINE r == RuleAt(at[s])
    <3>1. r \in Rule /\ rules[s][r] \in Setting
      BY RuleAtType DEF TypeOK
    <3>2. rules[s][r].severity \in Severity
      BY <3>1 DEF Setting
    <3>3. rule' \in [Rule -> Setting]
      BY <2>5, <3>1 DEF Reconcile, Upsert, TypeOK
    <3>4. alert' \in [Fingerprint -> [severity : Severity \cup {0}, missing : 0..1]]
      BY <2>5, <3>2, Applied DEF Reconcile, TypeOK
    <3>5. told' \in [Fingerprint -> Severity \cup {0}]
      BY <2>5, <3>2 DEF Reconcile, TypeOK
    <3>6. /\ pc' \in [Server -> {"idle", "observe", "reconcile"}]
          /\ at' \in [Server -> 1..(Rules * Nodes)]
          /\ rules' \in [Server -> [Rule -> Setting]]
          /\ findings' \in [Server -> SUBSET Fingerprint]
          /\ \A t \in Server : findings'[t] \subseteq Of(at'[t])
      <4>1. CASE at[s] = Rules * Nodes
        BY <2>5, <4>1, ReturnType DEF Reconcile
      <4>2. CASE at[s] # Rules * Nodes
        <5>1. at[s] + 1 \in 1..(Rules * Nodes)
          <6> DEFINE P == Rules * Nodes
          <6>1. P \in Nat /\ at[s] \in 1..P /\ at[s] # P
            BY <4>2, Places DEF TypeOK
          <6> HIDE DEF P
          <6>2. at[s] + 1 \in 1..P
            BY <6>1
          <6>3. QED
            BY <6>2 DEF P
        <5>2. \A t \in Server : findings'[t] = IF t = s THEN {} ELSE findings[t]
          BY <2>5, <4>2 DEF Reconcile, TypeOK
        <5>3. \A t \in Server \ {s} : at'[t] = at[t]
          BY <2>5, <4>2 DEF Reconcile, TypeOK
        <5>4. \A t \in Server : findings'[t] \subseteq Of(at'[t])
          BY <5>2, <5>3 DEF TypeOK
        <5>5. QED
          BY <2>5, <4>2, <5>1, <5>4 DEF Reconcile, TypeOK
      <4>3. QED
        BY <4>1, <4>2
    <3>7. UNCHANGED <<edits, wanted, exposed, cond, changes, fails>>
      BY <2>5 DEF Reconcile
    <3>8. QED
      BY <3>3, <3>4, <3>5, <3>6, <3>7 DEF TypeOK
  <2>6. ASSUME NEW s \in Server, RunFails(s) PROVE TypeOK'
    <3>1. fails' \in 0..MaxFails
      BY <2>6, AlertsAssumption DEF RunFails, TypeOK
    <3>2. UNCHANGED <<rule, edits, wanted, exposed, cond, changes, alert, told>>
      BY <2>6 DEF RunFails, ruleVars
    <3>3. QED
      BY <2>6, <3>1, <3>2, ReturnType DEF RunFails, TypeOK
  <2>7. CASE UNCHANGED vars
    BY <2>7 DEF vars, ruleVars, runVars, TypeOK
  <2>8. QED
    BY <2>1, <2>2, <2>3, <2>4, <2>5, <2>6, <2>7 DEF Next, Step
<1>3. QED
  BY <1>1, <1>2, PTL DEF Spec

\* The receiver of the webhook has been told of every open alert with its
\* severity (store.go:24-41, repository.go:60-100).
THEOREM ReceiverTold == Spec => []Told
<1>1. Init => Told
  BY DEF Init, Told, Open, NoAlert
<1>2. TypeOK /\ Told /\ [Next]_vars => Told'
  <2> SUFFICES ASSUME TypeOK, Told, [Next]_vars PROVE Told'
    OBVIOUS
  <2>1. ASSUME NEW s \in Server, Reconcile(s) PROVE Told'
    <3> DEFINE v == rules[s][RuleAt(at[s])].severity
    <3>1. v \in Severity
      BY RuleAtType DEF TypeOK, Setting
    <3>2. SUFFICES ASSUME NEW k \in Fingerprint, alert'[k].severity # 0
                   PROVE  told'[k] = alert'[k].severity
      BY DEF Told, Open
    <3>3. told'[k] = IF k \in findings[s] /\ v > alert[k].severity THEN v ELSE told[k]
      BY <2>1 DEF Reconcile
    <3>4. alert[k] \in [severity : Severity \cup {0}, missing : 0..1]
      BY DEF TypeOK
    <3>5. alert[k].severity # 0 => told[k] = alert[k].severity
      BY DEF Told, Open
    <3>6. CASE k \in findings[s]
      <4>1. alert'[k] = ApplyFinding(alert[k], v)
        BY <2>1, <3>6 DEF Reconcile
      <4>2. alert'[k].severity = IF v > alert[k].severity THEN v ELSE alert[k].severity
        BY <3>1, <3>4, <4>1, Applied
      <4>3. QED
        BY <3>1, <3>2, <3>3, <3>5, <3>6, <4>2, AlertsAssumption
    <3>7. CASE k \notin findings[s]
      <4>1. alert'[k] \in {alert[k], ApplyMissing(alert[k])}
        BY <2>1, <3>7 DEF Reconcile
      <4>2. alert'[k].severity \in {0, alert[k].severity}
        BY <3>1, <3>4, <4>1, Applied
      <4>3. QED
        BY <3>2, <3>3, <3>5, <3>7, <4>2
    <3>8. QED
      BY <3>6, <3>7
  <2>2. CASE UNCHANGED <<alert, told>>
    BY <2>2 DEF Told, Open
  <2>3. QED
    BY <2>1, <2>2
    DEF Next, Operator, UpdateAlertRules, Change, Step, Run, Observations, RunFails, vars
<1>3. QED
  BY <1>1, <1>2, TypeInvariant, PTL DEF Spec

\* The inductive invariant behind EditsStay: what a run under way has read of a
\* rule is what the operator wants of it, unless they changed it during a run.
ReadAsWanted ==
    \A s \in Server : pc[s] # "idle" =>
        \A r \in Rule : rules[s][r] = wanted[r] \/ exposed[r]

\* An edit made while no run was under way stays (runner.go:28,
\* repository.go:26-33).
THEOREM QuietEditsStay == Spec => []EditsStay
<1>1. Init => EditsStay /\ ReadAsWanted
  BY DEF Init, EditsStay, ReadAsWanted
<1>2. TypeOK /\ EditsStay /\ ReadAsWanted /\ [Next]_vars => EditsStay' /\ ReadAsWanted'
  <2> SUFFICES ASSUME TypeOK, EditsStay, ReadAsWanted, [Next]_vars
               PROVE  EditsStay' /\ ReadAsWanted'
    OBVIOUS
  <2>1. CASE Operator
    <3>1. PICK request : UpdateAlertRules(request)
      BY <2>1 DEF Operator
    <3>2. UNCHANGED <<pc, rules>>
      BY <3>1 DEF UpdateAlertRules, runVars
    <3>3. ASSUME NEW r \in Rule
          PROVE  \/ rule'[r] = wanted'[r] /\ ~\E s \in Server : pc[s] # "idle"
                 \/ exposed'[r]
                 \/ rule'[r] = rule[r] /\ wanted'[r] = wanted[r] /\ (exposed[r] => exposed'[r])
      BY <3>1 DEF UpdateAlertRules
    <3>4. QED
      BY <3>2, <3>3 DEF EditsStay, ReadAsWanted
  <2>2. ASSUME NEW s \in Server, Run(s) PROVE EditsStay' /\ ReadAsWanted'
    <3>1. UNCHANGED <<rule, wanted, exposed>>
      BY <2>2 DEF Run, ruleVars
    <3>2. \A t \in Server : t # s => pc'[t] = pc[t] /\ rules'[t] = rules[t]
      BY <2>2 DEF Run, TypeOK
    <3>3. rules'[s] = rule
      BY <2>2 DEF Run, TypeOK
    <3>4. QED
      BY <3>1, <3>2, <3>3 DEF EditsStay, ReadAsWanted
  <2>3. ASSUME NEW s \in Server, Reconcile(s) PROVE EditsStay' /\ ReadAsWanted'
    <3>1. UNCHANGED <<wanted, exposed>>
      BY <2>3 DEF Reconcile
    <3>2. \A r \in Rule : rule'[r] \in {rule[r], rules[s][r]}
      BY <2>3 DEF Reconcile, Upsert, TypeOK
    <3>3. \A t \in Server : pc'[t] # "idle" => pc[t] # "idle" /\ rules'[t] = rules[t]
      BY <2>3 DEF Reconcile, Return, TypeOK
    <3>4. pc[s] # "idle"
      BY <2>3 DEF Reconcile
    <3>5. QED
      BY <3>1, <3>2, <3>3, <3>4 DEF EditsStay, ReadAsWanted
  <2>4. ASSUME NEW s \in Server, Observations(s) \/ RunFails(s) PROVE EditsStay' /\ ReadAsWanted'
    <3>1. UNCHANGED <<rule, wanted, exposed>>
      BY <2>4 DEF Observations, RunFails, ruleVars
    <3>2. \A t \in Server : pc'[t] # "idle" => pc[t] # "idle" /\ rules'[t] = rules[t]
      BY <2>4 DEF Observations, RunFails, Return, TypeOK
    <3>3. QED
      BY <3>1, <3>2 DEF EditsStay, ReadAsWanted
  <2>5. CASE UNCHANGED <<rule, wanted, exposed, pc, rules>>
    BY <2>5 DEF EditsStay, ReadAsWanted
  <2>6. QED
    BY <2>1, <2>2, <2>3, <2>4, <2>5 DEF Next, Change, Step, vars, ruleVars, runVars
<1>3. QED
  BY <1>1, <1>2, TypeInvariant, PTL DEF Spec

=============================================================================
