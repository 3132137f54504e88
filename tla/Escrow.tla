------------------------------- MODULE Escrow -------------------------------
(***************************************************************************)
(* What a campaign promises about its money, without deadlines, pledges,   *)
(* roles, fees or rewards: a vault that takes deposits while open, and     *)
(* from which money leaves in three ways only: once, as a whole, to the    *)
(* beneficiaries; claim by claim to the depositors, all of whom can be     *)
(* paid; or all claims together when the campaign is called off.           *)
(***************************************************************************)
EXTENDS Integers, FiniteSets, Loops

CONSTANTS Depositors,  \* who may hold a claim
          Limit        \* the largest amount that can be stored

VARIABLES phase, vault, claim
vars == <<phase, vault, claim>>

Phases == {"open", "paying", "refunding", "closed"}

Init == phase = "open" /\ vault = 0 /\ claim = [d \in Depositors |-> 0]

\* A depositor pays in and holds a claim for it.
Deposit(d) ==
  /\ phase = "open"
  /\ \E n \in 1..Limit :
       vault' = vault + n /\ claim' = [claim EXCEPT ![d] = @ + n]
  /\ UNCHANGED phase

\* Money that comes with no claim attached; it can only be paid out.
TopUp ==
  /\ phase = "open"
  /\ \E n \in 1..Limit : vault' = vault + n
  /\ UNCHANGED <<phase, claim>>

\* The campaign is funded.
Succeed == phase = "open" /\ phase' = "paying" /\ UNCHANGED <<vault, claim>>

\* The campaign failed; then the vault is worth exactly the claims.
Fail ==
  /\ phase = "open" /\ phase' = "refunding"
  /\ vault = Sum(claim, Depositors)
  /\ UNCHANGED <<vault, claim>>

\* The beneficiaries take everything at once.
PayOut == phase = "paying" /\ vault > 0 /\ vault' = 0 /\ UNCHANGED <<phase, claim>>

\* One depositor takes one claim.
Refund(d) ==
  /\ phase = "refunding" /\ claim[d] > 0
  /\ vault' = vault - claim[d] /\ claim' = [claim EXCEPT ![d] = 0]
  /\ UNCHANGED phase

\* Every claim is paid and the vault closes.
CallOff ==
  /\ phase = "open" /\ phase' = "closed"
  /\ vault >= Sum(claim, Depositors)
  /\ vault' = vault - Sum(claim, Depositors)
  /\ claim' = [d \in Depositors |-> 0]

\* The vault closes with whatever it holds.
Freeze == phase' = "closed" /\ UNCHANGED <<vault, claim>>

Next ==
  \/ \E d \in Depositors : Deposit(d) \/ Refund(d)
  \/ TopUp \/ Succeed \/ Fail \/ PayOut \/ CallOff \/ Freeze

Spec == Init /\ [][Next]_vars
=============================================================================
