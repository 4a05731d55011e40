---------------------------- MODULE PrintLedger ----------------------------
(***************************************************************************)
(* What the print journal promises, without its phases: every copy number  *)
(* of a document is handed out once and in order, and the Cloud ledger is  *)
(* told of a print once, when its outcome is known, and never contradicted.*)
(***************************************************************************)
EXTENDS Naturals

CONSTANTS
  Scopes   \* what a copy number counts against: a document kind of one payer or order

VARIABLES
  issued,  \* the copy numbers handed out per scope
  told     \* what Cloud was told

Outcomes == {"printed", "failed", "needs_attention"}

Report == [id : Nat, scope : Scopes, no : Nat, status : Outcomes]

Init == issued = [s \in Scopes |-> {}] /\ told = {}

(* The next number: one past the highest handed out so far. *)
Follows(n, numbers) == IF numbers = {} THEN n = 1
                       ELSE n - 1 \in numbers /\ \A m \in numbers : m < n

Issue(s) ==
  /\ \E n \in {1} \cup {m + 1 : m \in issued[s]} :
       /\ Follows(n, issued[s])
       /\ issued' = [issued EXCEPT ![s] = @ \cup {n}]
  /\ UNCHANGED told

(* Only outcomes of numbers handed out, and each print once. *)
Tell ==
  /\ told \subseteq told'
  /\ \A r \in told' \ told : r \in Report /\ r.no \in issued[r.scope]
  /\ \A r, q \in told' : q.id = r.id => q = r
  /\ UNCHANGED issued

Next == Tell \/ \E s \in Scopes : Issue(s)

Spec == Init /\ [][Next]_<<issued, told>>
=============================================================================
