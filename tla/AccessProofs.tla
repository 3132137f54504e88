---------------------------- MODULE AccessProofs ----------------------------
(***************************************************************************)
(* Who can change what the single-holder keys guard, how long a session    *)
(* token is good for, what stands on the trusted list, who backs what is   *)
(* executed and who can change the role tables, for any addresses, roles,  *)
(* rates, lifetimes, thresholds, delays and bounds.                        *)
(***************************************************************************)
EXTENDS RoleBasedAccess, AccessControl, Session, TrustedContracts, MultiSig,
        LoopProofs, FunctionTheorems

-----------------------------------------------------------------------------
(* The keys.                                                               *)

\* The history variables follow the stored proposal: a pending address is the
\* one that was proposed last, and the administrator is among those who have
\* held the role since.
AccessInv ==
  /\ AccessTypeOK
  /\ nomination = pendingAdmin
  /\ nomination # None => defaultAdmin \in holders

LEMMA AccessStart == AccessInit => AccessInv
BY AccessAssumption DEF AccessInit, AccessInv, AccessTypeOK

LEMMA ProvisionKeeps ==
  ASSUME AccessInv, NEW d \in Addresses, NEW p \in Addresses,
         NEW g \in Addresses, NEW u \in Addresses, ProvisionKeys(d, p, g, u)
  PROVE  AccessInv'
<1>1. defaultAdmin = None /\ nomination = None
  BY LedgerAssumption DEF ProvisionKeys, AccessInv, AccessTypeOK
<1> QED  BY <1>1 DEF AccessInv, AccessTypeOK, ProvisionKeys

\* Calls that move a key or a proposal.
LEMMA KeyCallsKeep ==
  ASSUME AccessInv, NEW c \in Addresses,
         \/ CancelDefaultAdminTransfer(c) \/ AcceptDefaultAdminRole(c)
         \/ \E a \in Addresses : \/ TransferDefaultAdmin(c, a)
                                 \/ TransferPauser(c, a)
                                 \/ ProposeDefaultAdmin(c, a)
  PROVE  AccessInv'
BY DEF AccessInv, AccessTypeOK, CancelDefaultAdminTransfer,
       AcceptDefaultAdminRole, TransferDefaultAdmin, TransferPauser,
       ProposeDefaultAdmin

\* Calls that use a key.
LEMMA GuardedCallsKeep ==
  ASSUME AccessInv,
         \/ \E c \in Addresses :
              \/ HaltContract(c) \/ ResumeContract(c)
              \/ \E rate \in FeeRates : SetPlatformFee(c, rate)
         \/ \E hash \in Hashes : Upgrade(hash)
  PROVE  AccessInv'
BY DEF AccessInv, AccessTypeOK, HaltContract, ResumeContract, SetPlatformFee,
       Upgrade

LEMMA AccessStep == AccessInv /\ [AccessNext]_<<ledgerVars, accessVars>> => AccessInv'
<1> SUFFICES ASSUME AccessInv, [AccessNext]_<<ledgerVars, accessVars>>
             PROVE  AccessInv'
  OBVIOUS
<1>1. CASE UNCHANGED <<ledgerVars, accessVars>>
  BY <1>1 DEF AccessInv, AccessTypeOK, accessVars
<1>2. CASE AccessNext
  BY <1>2, ProvisionKeeps, KeyCallsKeep, GuardedCallsKeep DEF AccessNext
<1> QED  BY <1>1, <1>2

\* access_control.rs keeps one holder per role, a fee within its bound, and a
\* proposal that is the one made last.
THEOREM AccessInvariance == AccessSpec => []AccessInv
<1> QED  BY AccessStart, AccessStep, PTL DEF AccessSpec

\* The default admin loses the role by his own signature, or to the address
\* proposed last, once, by a proposal of his own or of one from whom the role
\* has come to him by direct transfers.
THEOREM AdminSucceeds == AccessSpec => AdminSuccession
<1>1. AccessInv /\ [AccessNext]_<<ledgerVars, accessVars>> =>
        [defaultAdmin # None /\ defaultAdmin' # defaultAdmin =>
           \/ signer' = defaultAdmin
           \/ /\ defaultAdmin \in holders /\ holders' = {}
              /\ defaultAdmin' = nomination /\ signer' = nomination]_<<ledgerVars, accessVars>>
  <2> SUFFICES ASSUME AccessInv, AccessNext,
                      defaultAdmin # None, defaultAdmin' # defaultAdmin
               PROVE  \/ signer' = defaultAdmin
                      \/ /\ defaultAdmin \in holders /\ holders' = {}
                         /\ defaultAdmin' = nomination /\ signer' = nomination
    OBVIOUS
  <2>1. PICK c \in Addresses : \/ AcceptDefaultAdminRole(c)
                               \/ \E a \in Addresses : TransferDefaultAdmin(c, a)
    BY DEF AccessNext, ProvisionKeys, HaltContract, ResumeContract,
           CancelDefaultAdminTransfer, SetPlatformFee, TransferPauser,
           ProposeDefaultAdmin, Upgrade
  <2>2. CASE AcceptDefaultAdminRole(c)
    <3>1. pendingAdmin = c /\ c # None
      BY <2>2, LedgerAssumption DEF AcceptDefaultAdminRole
    <3> QED  BY <2>2, <3>1 DEF AcceptDefaultAdminRole, AccessInv, SignedBy
  <2>3. CASE \E a \in Addresses : TransferDefaultAdmin(c, a)
    BY <2>3 DEF TransferDefaultAdmin, SignedBy
  <2> QED  BY <2>1, <2>2, <2>3
<1> QED  BY <1>1, AccessInvariance, PTL DEF AccessSpec, AdminSuccession

\* The pause switch, the fee, the pauser key and the code each change only by
\* the signature of the role they belong to.
THEOREM DutiesSeparated == AccessSpec => SeparationOfDuties
<1> DEFINE Separated ==
      defaultAdmin # None =>
        /\ halted' # halted =>
             signer' = defaultAdmin \/ (halted' /\ signer' = pauser)
        /\ feeRate' # feeRate => signer' = governance
        /\ pauser' # pauser => signer' = defaultAdmin
        /\ code' # code => signer' = upgrader
<1>1. AccessNext => Separated
  <2> SUFFICES ASSUME AccessNext, defaultAdmin # None
               PROVE  /\ halted' # halted =>
                           signer' = defaultAdmin \/ (halted' /\ signer' = pauser)
                      /\ feeRate' # feeRate => signer' = governance
                      /\ pauser' # pauser => signer' = defaultAdmin
                      /\ code' # code => signer' = upgrader
    OBVIOUS
  <2>1. CASE \E hash \in Hashes : Upgrade(hash)
    BY <2>1 DEF Upgrade, SignedBy
  <2>2. ASSUME NEW c \in Addresses, HaltContract(c) \/ ResumeContract(c)
        PROVE  /\ halted' # halted =>
                    signer' = defaultAdmin \/ (halted' /\ signer' = pauser)
               /\ UNCHANGED <<feeRate, pauser, code>>
    BY <2>2 DEF HaltContract, ResumeContract, SignedBy
  <2>3. ASSUME NEW c \in Addresses,
               \/ CancelDefaultAdminTransfer(c) \/ AcceptDefaultAdminRole(c)
               \/ \E a \in Addresses : \/ TransferDefaultAdmin(c, a)
                                       \/ TransferPauser(c, a)
                                       \/ ProposeDefaultAdmin(c, a)
        PROVE  /\ UNCHANGED <<halted, feeRate, code>>
               /\ pauser' # pauser => signer' = defaultAdmin
    BY <2>3 DEF CancelDefaultAdminTransfer, AcceptDefaultAdminRole,
                TransferDefaultAdmin, TransferPauser, ProposeDefaultAdmin, SignedBy
  <2>4. ASSUME NEW c \in Addresses, NEW rate \in FeeRates, SetPlatformFee(c, rate)
        PROVE  UNCHANGED <<halted, pauser, code>> /\ signer' = governance
    BY <2>4 DEF SetPlatformFee, SignedBy
  <2> QED  BY <2>1, <2>2, <2>3, <2>4 DEF AccessNext, ProvisionKeys
<1>2. [AccessNext]_<<ledgerVars, accessVars>> => [Separated]_<<ledgerVars, accessVars>>
  BY <1>1
<1> QED  BY <1>2, PTL DEF AccessSpec, SeparationOfDuties

-----------------------------------------------------------------------------
(* The session tokens.                                                     *)

\* A stored session was opened at a known time and ends within the longest
\* lifetime of it: what a use at any later moment is judged by.
Opened ==
  \A a \in Addresses : session[a] # None =>
    /\ openedAt[a] # None /\ openedAt[a] <= now
    /\ session[a].expiresAt <= openedAt[a] + MaxTtl

SessionInv == LedgerTypeOK /\ SessionTypeOK /\ ValidatedOnce /\ Opened

LEMMA SessionStart == LedgerInit /\ SessionInit => SessionInv
BY LedgerAssumption, SessionAssumption
   DEF LedgerInit, SessionInit, SessionInv, LedgerTypeOK, SessionTypeOK,
       ValidatedOnce, Opened

\* What is known of one address, for the steps on it.
LEMMA SessionFacts ==
  ASSUME SessionInv, NEW a \in Addresses
  PROVE  /\ now \in Nat /\ now <= MaxTime /\ MaxTime \in Nat
         /\ MinTtl \in Nat /\ MaxTtl \in Nat
         /\ session[a] \in [expiresAt : 0..(MaxTime + MaxTtl), used : BOOLEAN] \cup {None}
         /\ openedAt[a] \in 0..MaxTime \cup {None}
         /\ uses[a] \in Nat
BY LedgerAssumption, SessionAssumption DEF SessionInv, LedgerTypeOK, SessionTypeOK

LEMMA CreateKeeps ==
  ASSUME SessionInv, NEW c \in Addresses, NEW ttl \in Ttls, CreateSession(c, ttl)
  PROVE  SessionInv'
<1> DEFINE record == [expiresAt |-> now + ttl, used |-> FALSE]
<1>1. /\ now \in Nat /\ now <= MaxTime /\ MaxTime \in Nat
      /\ ttl \in Nat /\ ttl <= MaxTtl /\ MaxTtl \in Nat
  BY SessionFacts, SessionAssumption DEF CreateSession, CreateOpen, ValidTtl
<1>2. /\ session' = [session EXCEPT ![c] = record]
      /\ openedAt' = [openedAt EXCEPT ![c] = now]
      /\ uses' = [uses EXCEPT ![c] = 0]
      /\ now' = now /\ signer' = c
  BY DEF CreateSession, CreateOpen, SignedBy
<1>3. record \in [expiresAt : 0..(MaxTime + MaxTtl), used : BOOLEAN]
  BY <1>1
<1>4. record # None
  <2>1. record \in [expiresAt : Nat, used : BOOLEAN]
    BY <1>1
  <2> HIDE DEF record
  <2> QED  BY <2>1, SessionAssumption
<1>5. LedgerTypeOK'
  BY <1>2 DEF SessionInv, LedgerTypeOK
<1>6. SessionTypeOK'
  BY <1>1, <1>2, <1>3 DEF SessionInv, SessionTypeOK
<1>7. record.expiresAt = now + ttl /\ record.used = FALSE
  OBVIOUS
<1> HIDE DEF record
<1>8. ValidatedOnce'
  <2> SUFFICES ASSUME NEW a \in Addresses
               PROVE  /\ uses'[a] <= 1
                      /\ session'[a] # None => (session'[a].used <=> uses'[a] = 1)
    BY DEF ValidatedOnce
  <2>1. CASE a = c
    BY <1>2, <1>7, <2>1 DEF SessionInv, SessionTypeOK
  <2>2. CASE a # c
    BY <1>2, <2>2 DEF SessionInv, SessionTypeOK, ValidatedOnce
  <2> QED  BY <2>1, <2>2
<1>9. Opened'
  <2> SUFFICES ASSUME NEW a \in Addresses, session'[a] # None
               PROVE  /\ openedAt'[a] # None /\ openedAt'[a] <= now'
                      /\ session'[a].expiresAt <= openedAt'[a] + MaxTtl
    BY DEF Opened
  <2>1. CASE a = c
    <3>1. openedAt'[a] = now /\ session'[a] = record
      BY <1>2, <2>1 DEF SessionInv, SessionTypeOK
    <3> QED  BY <1>1, <1>2, <1>7, <3>1, LedgerAssumption
  <2>2. CASE a # c
    BY <1>2, <2>2 DEF SessionInv, SessionTypeOK, Opened
  <2> QED  BY <2>1, <2>2
<1> QED  BY <1>5, <1>6, <1>8, <1>9 DEF SessionInv

LEMMA ValidateKeeps ==
  ASSUME SessionInv, NEW c \in Addresses, ValidateSession(c)
  PROVE  SessionInv' /\ uses'[c] = 1
<1>1. /\ session' = [session EXCEPT ![c].used = TRUE]
      /\ uses' = [uses EXCEPT ![c] = @ + 1]
      /\ now' = now /\ signer' = None /\ openedAt' = openedAt
      /\ session[c] # None /\ ~session[c].used
  BY DEF ValidateSession, ValidateOpen, Unsigned
<1>2. session[c] \in [expiresAt : 0..(MaxTime + MaxTtl), used : BOOLEAN]
  BY <1>1, SessionFacts
<1> DEFINE marked == [session[c] EXCEPT !.used = TRUE]
<1>3. /\ marked \in [expiresAt : 0..(MaxTime + MaxTtl), used : BOOLEAN]
      /\ marked.used = TRUE /\ marked.expiresAt = session[c].expiresAt
  BY <1>2
<1>4. session' = [session EXCEPT ![c] = marked]
  BY <1>1
<1> HIDE DEF marked
<1>5. uses[c] = 0 /\ uses'[c] = 1
  <2>1. uses[c] <= 1 /\ (session[c].used <=> uses[c] = 1)
    BY <1>1 DEF SessionInv, ValidatedOnce
  <2>2. uses[c] # 1
    BY <1>1, <2>1
  <2>3. uses[c] = 0
    BY <2>1, <2>2, SessionFacts
  <2>4. uses' = [uses EXCEPT ![c] = 1]
    BY <1>1, <2>3
  <2> QED  BY <2>3, <2>4 DEF SessionInv, SessionTypeOK
<1>6. LedgerTypeOK'
  BY <1>1 DEF SessionInv, LedgerTypeOK
<1>7. SessionTypeOK'
  <2>1. session' \in [Addresses ->
           [expiresAt : 0..(MaxTime + MaxTtl), used : BOOLEAN] \cup {None}]
    BY <1>3, <1>4 DEF SessionInv, SessionTypeOK
  <2>2. uses' \in [Addresses -> Nat] /\ openedAt' = openedAt
    BY <1>1 DEF SessionInv, SessionTypeOK
  <2> QED  BY <2>1, <2>2 DEF SessionInv, SessionTypeOK
<1>8. ValidatedOnce'
  <2> SUFFICES ASSUME NEW a \in Addresses
               PROVE  /\ uses'[a] <= 1
                      /\ session'[a] # None => (session'[a].used <=> uses'[a] = 1)
    BY DEF ValidatedOnce
  <2>1. CASE a = c
    BY <1>3, <1>4, <1>5, <2>1 DEF SessionInv, SessionTypeOK
  <2>2. CASE a # c
    BY <1>1, <1>4, <2>2 DEF SessionInv, SessionTypeOK, ValidatedOnce
  <2> QED  BY <2>1, <2>2
<1>9. Opened'
  BY <1>1, <1>3, <1>4 DEF SessionInv, SessionTypeOK, Opened
<1> QED  BY <1>5, <1>6, <1>7, <1>8, <1>9 DEF SessionInv

\* Time and the removal of a record.
LEMMA QuietKeeps ==
  ASSUME SessionInv,
         \/ Tick /\ UNCHANGED sessionVars
         \/ \E c \in Addresses : RevokeSession(c)
         \/ UNCHANGED <<ledgerVars, sessionVars>>
  PROVE  SessionInv' /\ uses' = uses
<1>1. CASE Tick /\ UNCHANGED sessionVars
  BY <1>1, LedgerAssumption
     DEF Tick, sessionVars, SessionInv, LedgerTypeOK, SessionTypeOK,
         ValidatedOnce, Opened
<1>2. CASE \E c \in Addresses : RevokeSession(c)
  BY <1>2 DEF RevokeSession, SignedBy, SessionInv, LedgerTypeOK,
              SessionTypeOK, ValidatedOnce, Opened
<1>3. CASE UNCHANGED <<ledgerVars, sessionVars>>
  BY <1>3 DEF ledgerVars, sessionVars, SessionInv, LedgerTypeOK,
              SessionTypeOK, ValidatedOnce, Opened
<1> QED  BY <1>1, <1>2, <1>3

LEMMA SessionStep ==
  SessionInv /\ [SessionNext]_<<ledgerVars, sessionVars>> => SessionInv'
BY CreateKeeps, ValidateKeeps, QuietKeeps DEF SessionNext

\* session_management.rs: every record is typed, dated and marked as used as
\* soon as it was.
THEOREM SessionInvariance == SessionSpec => []SessionInv
<1> QED  BY SessionStart, SessionStep, PTL DEF SessionSpec

\* A session authorises one operation.
THEOREM OnceOnly == SessionSpec => []ValidatedOnce
<1>1. SessionInv => ValidatedOnce  BY DEF SessionInv
<1> QED  BY <1>1, SessionInvariance, PTL

\* A session is used within the longest lifetime after it was opened.
THEOREM InTimeOnly == SessionSpec => ValidatedInTime
<1> DEFINE InTime == \A a \in Addresses : uses'[a] > uses[a] =>
                       /\ openedAt[a] # None
                       /\ openedAt[a] <= now /\ now - openedAt[a] <= MaxTtl
<1>1. SessionInv /\ [SessionNext]_<<ledgerVars, sessionVars>> =>
        [InTime]_<<ledgerVars, sessionVars>>
  <2> SUFFICES ASSUME SessionInv, SessionNext,
                      NEW a \in Addresses, uses'[a] > uses[a]
               PROVE  /\ openedAt[a] # None
                      /\ openedAt[a] <= now /\ now - openedAt[a] <= MaxTtl
    OBVIOUS
  <2>0. uses[a] \in Nat  BY SessionFacts
  <2>1. CASE \E c \in Addresses, ttl \in Ttls : CreateSession(c, ttl)
    BY <2>0, <2>1 DEF CreateSession, CreateOpen, SessionInv, SessionTypeOK
  <2>2. CASE \E c \in Addresses : ValidateSession(c)
    <3>1. PICK c \in Addresses : ValidateSession(c)
      BY <2>2
    <3>2. a = c
      BY <2>0, <3>1 DEF ValidateSession, ValidateOpen, SessionInv, SessionTypeOK
    <3>3. session[a] # None /\ ~(now > session[a].expiresAt)
      BY <3>1, <3>2 DEF ValidateSession, ValidateOpen, Expired
    <3>4. session[a] \in [expiresAt : 0..(MaxTime + MaxTtl), used : BOOLEAN]
      BY <3>3, SessionFacts
    <3>5. session[a].expiresAt \in Int
      BY <3>4, SessionFacts
    <3>6. /\ openedAt[a] # None /\ openedAt[a] <= now
          /\ session[a].expiresAt <= openedAt[a] + MaxTtl
      BY <3>3 DEF SessionInv, Opened
    <3> QED  BY <3>3, <3>5, <3>6, SessionFacts
  <2>3. CASE \/ Tick /\ UNCHANGED sessionVars
             \/ \E c \in Addresses : RevokeSession(c)
    BY <2>0, <2>3, QuietKeeps
  <2> QED  BY <2>1, <2>2, <2>3 DEF SessionNext
<1> QED  BY <1>1, SessionInvariance, PTL DEF SessionSpec, ValidatedInTime
-----------------------------------------------------------------------------
(* The trusted list.                                                       *)

\* What the bound counts: the list names each standing contract, once.
TrustInv ==
  /\ TrustTypeOK /\ TrustedSet = standing
  /\ \A i, j \in 1..Len(trusted) : trusted[i] = trusted[j] => i = j

LEMMA TrustExact == TrustInv => TrustedExact
BY LengthIsSize DEF TrustInv, TrustTypeOK, TrustedExact, TrustedSet

\* Registering: a listed contract stays where it is, a new one comes last.
LEMMA RegisterKeeps ==
  ASSUME TrustInv, NEW c \in Addresses, NEW t \in Targets, RegisterTrusted(c, t)
  PROVE  TrustInv'
<1>1. /\ standing' = standing \cup {t} /\ called' = None /\ keeper' = keeper
      /\ trusted \in Seq(Targets) /\ Len(trusted) \in Nat
  BY DEF RegisterTrusted, TrustInv, TrustTypeOK
<1>2. CASE IsTrusted(t)
  <2>1. trusted' = trusted /\ standing' = standing
    BY <1>1, <1>2 DEF RegisterTrusted, IsTrusted, TrustInv
  <2> QED  BY <1>1, <2>1, ZenonT(30) DEF TrustInv, TrustTypeOK, TrustedSet
<1>3. CASE ~IsTrusted(t)
  <2>1. trusted' = Append(trusted, t) /\ Len(trusted) < MaxTrusted
    BY <1>3 DEF RegisterTrusted
  <2>2. /\ trusted' \in Seq(Targets) /\ Len(trusted') = Len(trusted) + 1
        /\ \A i \in 1..Len(trusted) : trusted'[i] = trusted[i]
        /\ trusted'[Len(trusted) + 1] = t
    BY <1>1, <2>1, AppendProperties
  <2>3. /\ 1..Len(trusted') = 1..Len(trusted) \cup {Len(trusted) + 1}
        /\ Len(trusted) + 1 \notin 1..Len(trusted)
    BY <1>1, <2>2
  <2>4. \A i \in 1..Len(trusted) : trusted[i] # t
    BY <1>3 DEF IsTrusted, TrustedSet
  <2>5. TrustedSet' = TrustedSet \cup {t}
    BY <2>2, <2>3 DEF TrustedSet
  <2>6. \A i, j \in 1..Len(trusted') : trusted'[i] = trusted'[j] => i = j
    <3> SUFFICES ASSUME NEW i \in 1..Len(trusted'), NEW j \in 1..Len(trusted'),
                        trusted'[i] = trusted'[j]
                 PROVE  i = j
      OBVIOUS
    <3>1. \A k \in 1..Len(trusted') : k \in 1..Len(trusted) \/ k = Len(trusted) + 1
      BY <2>3
    <3> QED  BY <2>2, <2>4, <3>1 DEF TrustInv
  <2>7. Len(trusted') <= MaxTrusted
    BY <1>1, <2>1, <2>2, TrustAssumption
  <2> QED  BY <1>1, <2>2, <2>5, <2>6, <2>7 DEF TrustInv, TrustTypeOK
<1> QED  BY <1>2, <1>3

\* Deregistering takes the contract off, and no other.
LEMMA DeregisterKeeps ==
  ASSUME TrustInv, NEW c \in Addresses, NEW t \in Targets, DeregisterTrusted(c, t)
  PROVE  TrustInv'
<1>1. /\ standing' = standing \ {t} /\ called' = None /\ keeper' = keeper
      /\ trusted' = Without(trusted, t) /\ trusted \in Seq(Targets)
      /\ \A i, j \in 1..Len(trusted) : trusted[i] = trusted[j] => i = j
  BY DEF DeregisterTrusted, TrustInv, TrustTypeOK
<1> DEFINE w == Without(trusted, t)
<1>2. /\ w \in Seq(Targets) /\ Len(w) <= Len(trusted)
      /\ {w[i] : i \in 1..Len(w)} = {trusted[i] : i \in 1..Len(trusted)} \ {t}
      /\ \A i, j \in 1..Len(w) : w[i] = w[j] => i = j
  <2>1. w \in Seq(Targets) /\ Len(w) <= Len(trusted)
    BY <1>1, WithoutProperties
  <2>2. /\ {w[i] : i \in 1..Len(w)} = {trusted[i] : i \in 1..Len(trusted)} \ {t}
        /\ \A i, j \in 1..Len(w) : w[i] = w[j] => i = j
    BY <1>1, WithoutExact, Zenon
  <2> QED  BY <2>1, <2>2
<1> HIDE DEF w
<1>3. trusted' = w  BY <1>1 DEF w
<1>4. TrustedSet' = TrustedSet \ {t}
  BY <1>2, <1>3 DEF TrustedSet
<1>5. Len(trusted') <= MaxTrusted
  <2>1. Len(w) \in Nat /\ Len(trusted) \in Nat  BY <1>1, <1>2
  <2> QED  BY <1>2, <1>3, <2>1, TrustAssumption DEF TrustInv, TrustTypeOK
<1> QED  BY <1>1, <1>2, <1>3, <1>4, <1>5 DEF TrustInv, TrustTypeOK

LEMMA TrustStepKeeps == TrustInv /\ [TrustNext]_<<ledgerVars, trustVars>> => TrustInv'
<1> SUFFICES ASSUME TrustInv, [TrustNext]_<<ledgerVars, trustVars>>
             PROVE  TrustInv'
  OBVIOUS
<1>1. ASSUME NEW a \in Addresses, ProvisionKeeper(a) PROVE TrustInv'
  BY <1>1 DEF ProvisionKeeper, TrustInv, TrustTypeOK, TrustedSet
<1>2. ASSUME NEW t \in Targets, InvokeExternal(t) PROVE TrustInv'
  BY <1>2 DEF InvokeExternal, TrustInv, TrustTypeOK, TrustedSet
<1>3. CASE UNCHANGED <<ledgerVars, trustVars>>
  BY <1>3 DEF trustVars, TrustInv, TrustTypeOK, TrustedSet
<1> QED  BY <1>1, <1>2, <1>3, RegisterKeeps, DeregisterKeeps DEF TrustNext

\* The list is what was registered and not deregistered since, each contract
\* once, for any bound on its length.
THEOREM TrustedAlwaysExact == TrustSpec => []TrustedExact
<1>1. TrustInit => TrustInv
  BY TrustAssumption DEF TrustInit, TrustInv, TrustTypeOK, TrustedSet
<1> QED  BY <1>1, TrustStepKeeps, TrustExact, PTL DEF TrustSpec

\* invoke_external reaches no contract that does not stand.
THEOREM OnlyStandingEverCalled == TrustSpec => OnlyStandingCalled
<1>1. TrustInit => TrustInv
  BY TrustAssumption DEF TrustInit, TrustInv, TrustTypeOK, TrustedSet
<1>2. ASSUME TrustInv, [TrustNext]_<<ledgerVars, trustVars>>
      PROVE  [called' # None => called' \in standing]_<<ledgerVars, trustVars>>
  <2> SUFFICES ASSUME TrustNext, called' # None PROVE called' \in standing
    BY <1>2
  <2>1. CASE \E a \in Addresses : ProvisionKeeper(a)
    BY <2>1 DEF ProvisionKeeper
  <2>2. CASE \E t \in Targets : InvokeExternal(t)
    BY <1>2, <2>2 DEF InvokeExternal, IsTrusted, TrustInv
  <2>3. CASE \E t \in Targets, c \in Addresses :
               RegisterTrusted(c, t) \/ DeregisterTrusted(c, t)
    BY <2>3 DEF RegisterTrusted, DeregisterTrusted
  <2> QED  BY <2>1, <2>2, <2>3 DEF TrustNext
<1> QED  BY <1>1, <1>2, TrustStepKeeps, PTL DEF TrustSpec, OnlyStandingCalled
-----------------------------------------------------------------------------
(* The approvals of multi_signature_execution.rs.                          *)

\* The list is what was approved and not revoked: it names nobody twice, and
\* nobody whose latest approval it names has another one.
MultiSigInv ==
  /\ LedgerTypeOK
  /\ multisig \in MultiSigConfig \cup {[signers |-> <<>>, threshold |-> 0]}
  /\ approvals \in Seq(Approval)
  /\ assent \in [Addresses -> 0..MaxTime \cup {None}]
  /\ \A i \in 1..Len(approvals) :
       assent[approvals[i].signer] = approvals[i].timestamp
  /\ \A i, j \in 1..Len(approvals) :
       approvals[i].signer = approvals[j].signer => i = j
  /\ \A a \in Addresses : assent[a] # None =>
       \E i \in 1..Len(approvals) : approvals[i].signer = a

LEMMA MultiSigStart == LedgerInit /\ MultiSigInit => MultiSigInv
<1> SUFFICES ASSUME LedgerInit, MultiSigInit PROVE MultiSigInv
  OBVIOUS
<1>1. approvals = <<>> /\ Len(approvals) = 0
  BY DEF MultiSigInit
<1> QED  BY <1>1, LedgerAssumption
         DEF LedgerInit, LedgerTypeOK, MultiSigInit, MultiSigInv

\* What the entries of the list are.
LEMMA ListedApproval ==
  ASSUME MultiSigInv, NEW i \in 1..Len(approvals)
  PROVE  /\ approvals[i] \in Approval
         /\ approvals[i].signer \in Addresses
         /\ approvals[i].timestamp \in 0..MaxTime
         /\ approvals[i].timestamp # None
<1>1. approvals[i] \in Approval
  BY DEF MultiSigInv
<1>2. None \notin 0..MaxTime
  BY LedgerAssumption
<1> QED  BY <1>1, <1>2 DEF Approval

LEMMA ApproveKeeps ==
  ASSUME MultiSigInv, NEW s \in Addresses, Approve(s)
  PROVE  MultiSigInv'
<1> DEFINE e == [signer |-> s, timestamp |-> now]  n == Len(approvals)
<1>1. /\ approvals' = Append(approvals, e)
      /\ assent' = [assent EXCEPT ![s] = now]
      /\ now' = now /\ signer' = s /\ multisig' = multisig
  BY DEF Approve, SignedBy
<1>2. \A i \in 1..n : approvals[i].signer # s
  BY DEF Approve, ValidApproval, HasApproved
<1>3. /\ e \in Approval /\ e.signer = s /\ e.timestamp = now
      /\ approvals \in Seq(Approval) /\ n \in Nat /\ now \in 0..MaxTime
  BY DEF MultiSigInv, LedgerTypeOK, Approval
<1> HIDE DEF e
<1>4. /\ approvals' \in Seq(Approval) /\ Len(approvals') = n + 1
      /\ \A i \in 1..n : approvals'[i] = approvals[i]
      /\ approvals'[n + 1] = e
  BY <1>1, <1>3, AppendProperties
<1> HIDE DEF n
<1>5. /\ \A i \in 1..(n + 1) : i \in 1..n \/ i = n + 1
      /\ 1..n \subseteq 1..(n + 1) /\ n + 1 \in 1..(n + 1)
  BY <1>3
<1>6. /\ assent' \in [Addresses -> 0..MaxTime \cup {None}]
      /\ assent'[s] = now /\ \A a \in Addresses \ {s} : assent'[a] = assent[a]
  BY <1>1, <1>3 DEF MultiSigInv
<1>7. \A i \in 1..n : /\ approvals[i].signer \in Addresses \ {s}
                      /\ assent[approvals[i].signer] = approvals[i].timestamp
  BY <1>2, ListedApproval DEF MultiSigInv, n
<1>8. \A i \in 1..Len(approvals') :
        assent'[approvals'[i].signer] = approvals'[i].timestamp
  <2> SUFFICES ASSUME NEW i \in 1..(n + 1)
               PROVE  assent'[approvals'[i].signer] = approvals'[i].timestamp
    BY <1>4
  <2>1. CASE i \in 1..n
    BY <1>4, <1>6, <1>7, <2>1
  <2>2. CASE i = n + 1
    BY <1>3, <1>4, <1>6, <2>2
  <2> QED  BY <1>5, <2>1, <2>2
<1>9. \A i, j \in 1..Len(approvals') :
        approvals'[i].signer = approvals'[j].signer => i = j
  <2> SUFFICES ASSUME NEW i \in 1..(n + 1), NEW j \in 1..(n + 1),
                      approvals'[i].signer = approvals'[j].signer
               PROVE  i = j
    BY <1>4
  <2>1. CASE i \in 1..n /\ j \in 1..n
    BY <1>4, <2>1 DEF MultiSigInv, n
  <2>2. CASE i \in 1..n /\ j = n + 1
    BY <1>2, <1>3, <1>4, <2>2 DEF n
  <2>3. CASE i = n + 1 /\ j \in 1..n
    BY <1>2, <1>3, <1>4, <2>3 DEF n
  <2> QED  BY <1>5, <2>1, <2>2, <2>3
<1>10. \A a \in Addresses : assent'[a] # None =>
         \E i \in 1..Len(approvals') : approvals'[i].signer = a
  <2> SUFFICES ASSUME NEW a \in Addresses, assent'[a] # None
               PROVE  \E i \in 1..(n + 1) : approvals'[i].signer = a
    BY <1>4
  <2>1. CASE a = s
    BY <1>3, <1>4, <1>5, <2>1
  <2>2. CASE a # s
    <3>1. PICK i \in 1..n : approvals[i].signer = a
      BY <1>6, <2>2 DEF MultiSigInv, n
    <3> QED  BY <1>4, <1>5, <3>1
  <2> QED  BY <2>1, <2>2
<1> QED  BY <1>1, <1>4, <1>6, <1>8, <1>9, <1>10 DEF MultiSigInv, LedgerTypeOK

LEMMA RevokeKeeps ==
  ASSUME MultiSigInv, NEW s \in Addresses, Revoke(s)
  PROVE  MultiSigInv'
<1> DEFINE n == Len(approvals)  k == RevocationIndex(s)
           at(i) == IF i < k THEN i ELSE i + 1
<1>1. /\ approvals' = [i \in 1..(n - 1) |-> approvals[at(i)]]
      /\ assent' = [assent EXCEPT ![s] = None]
      /\ now' = now /\ signer' = s /\ multisig' = multisig
  BY DEF Revoke, SignedBy
<1>2. k \in 1..n /\ approvals[k].signer = s
  <2>1. PICK i \in 1..n : approvals[i].signer = s
    BY DEF Revoke, HasApproved
  <2>2. n \in Nat
    BY DEF MultiSigInv
  <2>3. \A j \in 1..(i-1) : approvals[j].signer # s
    <3>1. \A j \in 1..(i-1) : j \in 1..n /\ j # i
      BY <2>2
    <3> QED  BY <2>1, <3>1 DEF MultiSigInv
  <2> QED  BY <2>1, <2>3, Zenon DEF RevocationIndex
<1>3. approvals \in Seq(Approval) /\ n \in Nat /\ n - 1 \in Nat
  BY <1>2 DEF MultiSigInv
<1> HIDE DEF k, n
<1>4. /\ \A i \in 1..(n - 1) : at(i) \in 1..n /\ at(i) # k
      /\ \A i, j \in 1..(n - 1) : at(i) = at(j) => i = j
      /\ \A j \in 1..n : j # k => \E i \in 1..(n - 1) : at(i) = j
  <2>1. \A i \in 1..(n - 1) : at(i) \in 1..n /\ at(i) # k
    BY <1>2, <1>3
  <2>2. \A i, j \in 1..(n - 1) : at(i) = at(j) => i = j
    BY <1>2, <1>3
  <2>3. ASSUME NEW j \in 1..n, j # k PROVE \E i \in 1..(n - 1) : at(i) = j
    <3>1. CASE j < k
      <4>1. j \in 1..(n - 1) /\ at(j) = j  BY <1>2, <1>3, <3>1
      <4> QED  BY <4>1
    <3>2. CASE j > k
      <4>1. j - 1 \in 1..(n - 1) /\ at(j - 1) = j  BY <1>2, <1>3, <3>2
      <4> QED  BY <4>1
    <3> QED  BY <1>2, <1>3, <2>3, <3>1, <3>2
  <2> QED  BY <2>1, <2>2, <2>3
<1> HIDE DEF at
<1>5. /\ approvals' \in Seq(Approval) /\ Len(approvals') = n - 1
      /\ \A i \in 1..(n - 1) : approvals'[i] = approvals[at(i)]
  <2>1. \A i \in 1..(n - 1) : approvals[at(i)] \in Approval
    BY <1>4, ListedApproval DEF n
  <2>2. approvals' \in [1..(n - 1) -> Approval]
    BY <1>1, <2>1
  <2> QED  BY <1>1, <1>3, <2>2
<1>6. /\ assent' \in [Addresses -> 0..MaxTime \cup {None}]
      /\ assent'[s] = None /\ \A a \in Addresses \ {s} : assent'[a] = assent[a]
  BY <1>1 DEF MultiSigInv
<1>7. \A i \in 1..(n - 1) :
        /\ approvals[at(i)].signer \in Addresses \ {s}
        /\ assent[approvals[at(i)].signer] = approvals[at(i)].timestamp
  <2> SUFFICES ASSUME NEW i \in 1..(n - 1)
               PROVE  /\ approvals[at(i)].signer \in Addresses \ {s}
                      /\ assent[approvals[at(i)].signer] = approvals[at(i)].timestamp
    OBVIOUS
  <2>1. at(i) \in 1..n /\ at(i) # k  BY <1>4
  <2>2. approvals[at(i)].signer # s
    BY <1>2, <2>1 DEF MultiSigInv, n
  <2> QED  BY <2>1, <2>2, ListedApproval DEF MultiSigInv, n
<1>8. \A i \in 1..Len(approvals') :
        assent'[approvals'[i].signer] = approvals'[i].timestamp
  BY <1>5, <1>6, <1>7
<1>9. \A i, j \in 1..Len(approvals') :
        approvals'[i].signer = approvals'[j].signer => i = j
  <2> SUFFICES ASSUME NEW i \in 1..(n - 1), NEW j \in 1..(n - 1),
                      approvals'[i].signer = approvals'[j].signer
               PROVE  i = j
    BY <1>5
  <2>1. approvals[at(i)].signer = approvals[at(j)].signer
    BY <1>5
  <2>2. at(i) \in 1..n /\ at(j) \in 1..n
    BY <1>4
  <2>3. at(i) = at(j)
    BY <2>1, <2>2 DEF MultiSigInv, n
  <2> QED  BY <1>4, <2>3
<1>10. \A a \in Addresses : assent'[a] # None =>
         \E i \in 1..Len(approvals') : approvals'[i].signer = a
  <2> SUFFICES ASSUME NEW a \in Addresses, assent'[a] # None
               PROVE  \E i \in 1..(n - 1) : approvals'[i].signer = a
    BY <1>5
  <2>1. a # s /\ assent[a] # None
    BY <1>6
  <2>2. PICK j \in 1..n : approvals[j].signer = a
    BY <2>1 DEF MultiSigInv, n
  <2>3. j # k
    BY <1>2, <2>1, <2>2
  <2>4. PICK i \in 1..(n - 1) : at(i) = j
    BY <1>4, <2>3
  <2> QED  BY <1>5, <2>2, <2>4
<1> QED  BY <1>1, <1>5, <1>6, <1>8, <1>9, <1>10 DEF MultiSigInv, LedgerTypeOK

LEMMA ExecuteKeeps == MultiSigInv /\ Execute => MultiSigInv'
<1> SUFFICES ASSUME MultiSigInv, Execute PROVE MultiSigInv'
  OBVIOUS
<1>1. approvals' = <<>> /\ Len(approvals') = 0
  BY DEF Execute
<1> QED  BY <1>1 DEF Execute, Unsigned, MultiSigInv, LedgerTypeOK

LEMMA MultiSigStep == MultiSigInv /\ [MultiSigNext]_<<ledgerVars, multisigVars>> => MultiSigInv'
<1> SUFFICES ASSUME MultiSigInv, [MultiSigNext]_<<ledgerVars, multisigVars>>
             PROVE  MultiSigInv'
  OBVIOUS
<1>1. ASSUME NEW cfg \in MultiSigConfig, Reconfigure(cfg) PROVE MultiSigInv'
  BY <1>1 DEF Reconfigure, Unsigned, MultiSigInv, LedgerTypeOK
<1>2. CASE Tick /\ UNCHANGED <<multisig, approvals, assent>>
  BY <1>2, LedgerAssumption DEF Tick, MultiSigInv, LedgerTypeOK
<1>3. CASE UNCHANGED <<ledgerVars, multisigVars>>
  BY <1>3 DEF ledgerVars, multisigVars, MultiSigInv, LedgerTypeOK
<1> QED  BY <1>1, <1>2, <1>3, ApproveKeeps, RevokeKeeps, ExecuteKeeps DEF MultiSigNext

\* What check_execution_threshold counts are different signers.
LEMMA CountedAreSigners ==
  ASSUME MultiSigInv
  PROVE  LET fresh == {a \in {b \in Addresses : assent[b] # None} :
                         now - assent[a] <= ApprovalExpiry}
         IN  /\ ValidApprovals <= Cardinality(fresh)
             /\ ValidApprovals \in Nat /\ Cardinality(fresh) \in Nat
<1> DEFINE n == Len(approvals)
           I == {i \in 1..n : now - approvals[i].timestamp <= ApprovalExpiry}
           S == {b \in Addresses : assent[b] # None}
           F == {a \in S : now - assent[a] <= ApprovalExpiry}
           f == [i \in I |-> approvals[i].signer]
           g == [i \in 1..n |-> approvals[i].signer]
<1>1. n \in Nat /\ IsFiniteSet(1..n)
  <2>1. n \in Nat  BY DEF MultiSigInv
  <2>2. n \in Int /\ 1 \in Int  BY <2>1
  <2> HIDE DEF n
  <2> QED  BY <2>1, <2>2, FS_Interval
<1>2. \A i \in 1..n : approvals[i].signer \in S
  BY ListedApproval DEF MultiSigInv
<1>3. IsFiniteSet(F)
  <2>1. g \in [1..n -> S]  BY <1>2
  <2>2. \A a \in S : \E i \in 1..n : g[i] = a
    BY DEF MultiSigInv
  <2> HIDE DEF g, S, n
  <2>3. g \in Surjection(1..n, S)
    BY <2>1, <2>2, Fun_IsSurj
  <2>4. IsFiniteSet(S)
    BY <1>1, <2>3, FS_Surjection
  <2> QED  BY <2>4, FS_Subset
<1>4. f \in Injection(I, F)
  <2>1. \A i \in I : f[i] \in F
    BY <1>2 DEF MultiSigInv
  <2>2. f \in [I -> F]
    BY <2>1
  <2>3. \A i, j \in I : f[i] = f[j] => i = j
    BY DEF MultiSigInv
  <2> HIDE DEF f, I, F
  <2> QED  BY <2>2, <2>3, Fun_IsInj
<1>5. /\ Cardinality(I) <= Cardinality(F)
      /\ Cardinality(I) \in Nat /\ Cardinality(F) \in Nat
  <2>1. IsFiniteSet(I)  BY <1>1, FS_Subset
  <2> HIDE DEF f, I, F
  <2> QED  BY <2>1, <1>3, <1>4, FS_Injection, FS_CardinalityType
<1> QED  BY <1>5 DEF ValidApprovals

\* Nothing is executed that as many different signers as the threshold asks,
\* and at least one, do not back at that moment.
THEOREM ExecutionAlwaysBacked == MultiSigSpec => ExecutedBacked
<1> DEFINE Standing == {a \in Addresses : assent[a] # None}
           Backed == /\ Standing \subseteq SignerSet
                     /\ Cardinality(SignerSet) >= MinSigners /\ multisig.threshold >= 1
                     /\ Cardinality({a \in Standing : now - assent[a] <= ApprovalExpiry})
                          >= multisig.threshold
<1>1. ASSUME MultiSigInv, Execute PROVE Backed
  <2>1. /\ ValidMultiSig(multisig) /\ ValidApprovals >= multisig.threshold
        /\ \A i \in 1..Len(approvals) : Authorised(approvals[i].signer)
    BY <1>1, Zenon DEF Execute, ExecutionResult
  <2>2. Standing \subseteq SignerSet
    <3> SUFFICES ASSUME NEW a \in Addresses, assent[a] # None PROVE a \in SignerSet
      OBVIOUS
    <3>1. PICK i \in 1..Len(approvals) : approvals[i].signer = a
      BY <1>1 DEF MultiSigInv
    <3> QED  BY <2>1, <3>1 DEF Authorised
  <2>3. multisig.signers \in Seq(Addresses) /\ multisig.threshold \in Nat
    <3>1. CASE multisig \in MultiSigConfig
      BY <3>1, MultiSigAssumption DEF MultiSigConfig
    <3>2. CASE multisig = [signers |-> <<>>, threshold |-> 0]
      <4>1. multisig.signers = <<>> /\ multisig.threshold = 0  BY <3>2
      <4> QED  BY <4>1
    <3> QED  BY <1>1, <3>1, <3>2 DEF MultiSigInv
  <2>4. Cardinality(SignerSet) >= MinSigners /\ multisig.threshold >= 1
    <3>1. /\ Len(multisig.signers) >= MinSigners
          /\ \A i, j \in 1..Len(multisig.signers) :
               multisig.signers[i] = multisig.signers[j] => i = j
      BY <2>1, <2>3 DEF ValidMultiSig, HasDuplicates
    <3>2. Cardinality(SignerSet) = Len(multisig.signers)
      BY <2>3, <3>1, LengthIsSize DEF SignerSet
    <3>3. multisig.threshold >= 1
      BY <2>1, <2>3 DEF ValidMultiSig
    <3> QED  BY <3>1, <3>2, <3>3
  <2>5. Cardinality({a \in Standing : now - assent[a] <= ApprovalExpiry})
          >= multisig.threshold
    <3>1. /\ ValidApprovals <= Cardinality({a \in Standing : now - assent[a] <= ApprovalExpiry})
          /\ ValidApprovals \in Nat
          /\ Cardinality({a \in Standing : now - assent[a] <= ApprovalExpiry}) \in Nat
      BY <1>1, CountedAreSigners
    <3> QED  BY <2>1, <2>3, <3>1
  <2> QED  BY <2>2, <2>4, <2>5
<1>2. MultiSigInv /\ [MultiSigNext]_<<ledgerVars, multisigVars>>
        => [executed' => Backed]_<<ledgerVars, multisigVars>>
  <2> SUFFICES ASSUME MultiSigInv, MultiSigNext, executed' PROVE Backed
    OBVIOUS
  <2>1. Execute
    BY DEF MultiSigNext, Approve, Revoke, Reconfigure
  <2> QED  BY <1>1, <2>1
<1> QED  BY <1>2, MultiSigStart, MultiSigStep, PTL DEF MultiSigSpec, ExecutedBacked
-----------------------------------------------------------------------------
(* The role tables.                                                        *)

\* An absent entry is none of the values an entry can have.
LEMMA Absent ==
  /\ None \notin Addresses /\ None \notin Nat
  /\ \A c \in Addresses, t \in Nat : [by |-> c, at |-> t] # None
BY RoleAssumption, LedgerAssumption

\* assign_role keeps the tables well formed.
LEMMA AssignKeeps ==
  ASSUME RoleInv, NEW c \in Addresses, NEW r \in Roles, NEW a \in Addresses,
         AssignRole(c, r, a)
  PROVE  RoleInv'
<1> USE DEF RoleInv, AssignRole, SignedBy
<1>L. LedgerTypeOK'
  BY DEF LedgerTypeOK
<1>1. members[r] \in Seq(Addresses) /\ Len(members[r]) \in Nat
  BY DEF RolesTypeOK
<1>2. /\ Append(members[r], a) \in Seq(Addresses)
      /\ Len(Append(members[r], a)) = Len(members[r]) + 1
  BY <1>1, AppendProperties
<1>3. members' \in [Roles -> Seq(Addresses)]
  BY <1>2 DEF RolesTypeOK
<1>4. ASSUME NEW q \in Roles PROVE Len(members'[q]) <= MaxMembers
  <2>1. CASE q = r
    <3>1. members'[q] = Append(members[r], a)  BY <2>1 DEF RolesTypeOK
    <3> QED  BY <1>1, <1>2, <3>1, RoleAssumption
  <2>2. CASE q # r
    <3>1. members'[q] = members[q]  BY <2>2 DEF RolesTypeOK
    <3> QED  BY <3>1 DEF RolesTypeOK
  <2> QED  BY <2>1, <2>2
<1>5. RolesTypeOK'
  BY <1>3, <1>4 DEF RolesTypeOK
<1> QED  BY <1>L, <1>5 DEF PendingPaired, TimesExact

\* revoke_role keeps the tables well formed.
LEMMA RevokeRoleKeeps ==
  ASSUME RoleInv, NEW c \in Addresses, NEW r \in Roles, NEW a \in Addresses,
         RevokeRole(c, r, a)
  PROVE  RoleInv'
<1> USE DEF RoleInv, RevokeRole, SignedBy
<1>L. LedgerTypeOK'
  BY DEF LedgerTypeOK
<1>1. members[r] \in Seq(Addresses) /\ Len(members[r]) \in Nat
  BY DEF RolesTypeOK
<1> DEFINE w == Without(members[r], a)
<1>2. w \in Seq(Addresses) /\ Len(w) <= Len(members[r]) /\ Len(w) \in Nat
  BY <1>1, WithoutProperties
<1>0. members' = [members EXCEPT ![r] = w]
  OBVIOUS
<1> HIDE DEF w
<1>3. members' \in [Roles -> Seq(Addresses)]
  BY <1>0, <1>2 DEF RolesTypeOK
<1>4. ASSUME NEW q \in Roles PROVE Len(members'[q]) <= MaxMembers
  <2>1. CASE q = r
    <3>1. members'[q] = w  BY <1>0, <2>1 DEF RolesTypeOK
    <3>2. Len(members[r]) <= MaxMembers  BY DEF RolesTypeOK
    <3> QED  BY <1>1, <1>2, <3>1, <3>2, RoleAssumption
  <2>2. CASE q # r
    <3>1. members'[q] = members[q]  BY <1>0, <2>2 DEF RolesTypeOK
    <3> QED  BY <3>1 DEF RolesTypeOK
  <2> QED  BY <2>1, <2>2
<1>5. RolesTypeOK'
  BY <1>3, <1>4 DEF RolesTypeOK
<1> QED  BY <1>L, <1>5 DEF PendingPaired, TimesExact

\* A completed transfer: what the role's list becomes.
LEMMA CompleteEffect ==
  ASSUME RolesTypeOK, NEW c \in Addresses, NEW r \in Roles,
         CompleteRoleTransfer(c, r)
  PROVE  /\ pendingTo[r] \in Addresses
         /\ members'[r] \in Seq(Addresses)
         /\ Len(members'[r]) \in 1..MaxMembers
         /\ members'[r][Len(members'[r])] = pendingTo[r]
         /\ \A i \in 1..(Len(members'[r]) - 1) :
              members'[r][i] # Head(members[r])
         /\ \A q \in Roles \ {r} : members'[q] = members[q]
<1> USE DEF CompleteRoleTransfer
<1> DEFINE w == Without(members[r], Head(members[r]))
<1>1. /\ members[r] \in Seq(Addresses) /\ members[r] # <<>>
      /\ Len(members[r]) \in Nat /\ Len(members[r]) <= MaxMembers
  BY DEF RolesTypeOK
<1>2. pendingTo[r] \in Addresses
  BY DEF RolesTypeOK
<1>3. /\ w \in Seq(Addresses) /\ Len(w) \in Nat
      /\ Len(w) < Len(members[r])
      /\ \A i \in 1..Len(w) : w[i] # Head(members[r])
  BY <1>1, WithoutProperties
<1>0. members' = [members EXCEPT ![r] = Append(w, pendingTo[r])]
  OBVIOUS
<1> HIDE DEF w
<1>4. members'[r] = Append(w, pendingTo[r])
  BY <1>0 DEF RolesTypeOK
<1>5. /\ Append(w, pendingTo[r]) \in Seq(Addresses)
      /\ Len(Append(w, pendingTo[r])) = Len(w) + 1
      /\ \A i \in 1..Len(w) : Append(w, pendingTo[r])[i] = w[i]
      /\ Append(w, pendingTo[r])[Len(w) + 1] = pendingTo[r]
  BY <1>2, <1>3, AppendProperties
<1>6. \A q \in Roles \ {r} : members'[q] = members[q]
  BY <1>0 DEF RolesTypeOK
<1>7. Len(members'[r]) \in 1..MaxMembers
  <2>1. Len(members'[r]) = Len(w) + 1  BY <1>4, <1>5
  <2>2. Len(w) + 1 <= MaxMembers  BY <1>1, <1>3, RoleAssumption
  <2> QED  BY <1>3, <2>1, <2>2, RoleAssumption
<1>8. ASSUME NEW i \in 1..(Len(members'[r]) - 1)
      PROVE  members'[r][i] # Head(members[r])
  <2> DEFINE s == Append(w, pendingTo[r])
  <2>1. members'[r] = s /\ Len(s) = Len(w) + 1  BY <1>4, <1>5
  <2>2. i \in 1..Len(w)  BY <1>3, <2>1
  <2>3. s[i] = w[i]  BY <1>5, <2>2
  <2> QED  BY <1>3, <2>1, <2>2, <2>3
<1> QED  BY <1>2, <1>4, <1>5, <1>6, <1>7, <1>8

\* complete_role_transfer keeps the tables well formed.
LEMMA CompleteKeeps ==
  ASSUME RoleInv, NEW c \in Addresses, NEW r \in Roles,
         CompleteRoleTransfer(c, r)
  PROVE  RoleInv'
<1> USE DEF RoleInv, CompleteRoleTransfer, SignedBy
<1>L. LedgerTypeOK'
  BY DEF LedgerTypeOK
<1>1. /\ members'[r] \in Seq(Addresses) /\ Len(members'[r]) <= MaxMembers
      /\ \A q \in Roles \ {r} : members'[q] = members[q]
  <2>1. Len(members'[r]) \in 1..MaxMembers  BY CompleteEffect
  <2>2. Len(members'[r]) <= MaxMembers  BY <2>1, RoleAssumption
  <2> QED  BY <2>2, CompleteEffect
<1>2. members' \in [Roles -> Seq(Addresses)]
  <2> DEFINE l == Append(Without(members[r], Head(members[r])), pendingTo[r])
  <2>1. members' = [members EXCEPT ![r] = l]  OBVIOUS
  <2> HIDE DEF l
  <2>2. l = members'[r]  BY <2>1 DEF RolesTypeOK
  <2> QED  BY <1>1, <2>1, <2>2 DEF RolesTypeOK
<1>3. \A q \in Roles : Len(members'[q]) <= MaxMembers
  BY <1>1 DEF RolesTypeOK
<1>4. RolesTypeOK'
  BY <1>2, <1>3 DEF RolesTypeOK
<1>5. PendingPaired'
  BY DEF PendingPaired, RolesTypeOK
<1>6. TimesExact'
  BY DEF TimesExact, PendingPaired, RolesTypeOK
<1> QED  BY <1>L, <1>4, <1>5, <1>6

\* initiate_role_transfer writes both entries.
LEMMA InitiateKeeps ==
  ASSUME RoleInv, NEW c \in Addresses, NEW r \in Roles, NEW a \in Addresses,
         InitiateRoleTransfer(c, r, a)
  PROVE  RoleInv'
<1> USE DEF RoleInv, InitiateRoleTransfer, SignedBy
<1>L. LedgerTypeOK'
  BY DEF LedgerTypeOK
<1>1. now + TransferDelay \in Nat /\ now \in Nat
  BY RoleAssumption, LedgerAssumption DEF LedgerTypeOK
<1>2. RolesTypeOK'
  BY <1>1 DEF RolesTypeOK
<1>3. PendingPaired'
  <2>1. a # None /\ now + TransferDelay # None /\ [by |-> c, at |-> now] # None
    BY <1>1, Absent
  <2> QED  BY <2>1 DEF PendingPaired, RolesTypeOK
<1>4. TimesExact'
  BY DEF TimesExact, RolesTypeOK
<1> QED  BY <1>L, <1>2, <1>3, <1>4

\* The remaining actions.
LEMMA CancelKeeps ==
  ASSUME RoleInv, NEW c \in Addresses, NEW r \in Roles,
         CancelRoleTransfer(c, r)
  PROVE  RoleInv'
<1>1. LedgerTypeOK'
  BY DEF RoleInv, CancelRoleTransfer, SignedBy, LedgerTypeOK
<1>2. RolesTypeOK' /\ PendingPaired' /\ TimesExact'
  BY DEF RoleInv, CancelRoleTransfer, SignedBy, LedgerTypeOK, RolesTypeOK,
         PendingPaired, TimesExact
<1> QED  BY <1>1, <1>2 DEF RoleInv

LEMMA InitializeKeeps ==
  ASSUME RoleInv, NEW a \in Addresses, InitializeRbac(a)
  PROVE  RoleInv'
<1> USE DEF RoleInv, InitializeRbac, Unsigned
<1>L. LedgerTypeOK'
  BY DEF LedgerTypeOK
<1>1. <<a>> \in Seq(Addresses) /\ Len(<<a>>) <= MaxMembers
  BY RoleAssumption, LedgerAssumption
<1>2. RolesTypeOK'
  BY <1>1 DEF RolesTypeOK
<1> QED  BY <1>L, <1>2 DEF PendingPaired, TimesExact

LEMMA TickKeeps ==
  ASSUME RoleInv, Tick, UNCHANGED rolesVars
  PROVE  RoleInv'
<1>1. LedgerTypeOK'
  BY LedgerAssumption DEF RoleInv, Tick, LedgerTypeOK
<1>2. RolesTypeOK' /\ PendingPaired' /\ TimesExact'
  BY DEF RoleInv, rolesVars, RolesTypeOK, PendingPaired, TimesExact
<1> QED  BY <1>1, <1>2 DEF RoleInv

\* The tables are well formed in every reachable state, and the two entries
\* of a pending transfer exist together and agree with its history.
THEOREM RoleInvariance == RolesSpec => []RoleInv
<1>1. LedgerInit /\ RolesInit => RoleInv
  BY RoleAssumption, LedgerAssumption
     DEF LedgerInit, LedgerTypeOK, RolesInit, RoleInv, RolesTypeOK, PendingPaired, TimesExact
<1>2. RoleInv /\ [RolesNext]_<<ledgerVars, rolesVars>> => RoleInv'
  <2> SUFFICES ASSUME RoleInv, [RolesNext]_<<ledgerVars, rolesVars>> PROVE RoleInv'
    OBVIOUS
  <2>1. CASE UNCHANGED <<ledgerVars, rolesVars>>
    BY <2>1 DEF ledgerVars, rolesVars, LedgerTypeOK, RoleInv, RolesTypeOK, PendingPaired, TimesExact
  <2>2. CASE Tick /\ UNCHANGED rolesVars  BY <2>2, TickKeeps
  <2>3. ASSUME NEW a \in Addresses, InitializeRbac(a) PROVE RoleInv'
    BY <2>3, InitializeKeeps
  <2>4. ASSUME NEW c \in Addresses, NEW r \in Roles,
               \/ CompleteRoleTransfer(c, r) \/ CancelRoleTransfer(c, r)
               \/ \E a \in Addresses : \/ AssignRole(c, r, a)
                                       \/ RevokeRole(c, r, a)
                                       \/ InitiateRoleTransfer(c, r, a)
        PROVE  RoleInv'
    BY <2>4, CompleteKeeps, CancelKeeps, AssignKeeps, RevokeRoleKeeps, InitiateKeeps
  <2> QED  BY <2>1, <2>2, <2>3, <2>4 DEF RolesNext
<1> QED  BY <1>1, <1>2, PTL DEF RolesSpec

\* The parts of the invariant that the runs check.
THEOREM RoleTypes == RolesSpec => []RolesTypeOK
<1>1. RoleInv => RolesTypeOK  BY DEF RoleInv
<1> QED  BY <1>1, RoleInvariance, PTL

THEOREM PendingPairs == RolesSpec => []PendingPaired
<1>1. RoleInv => PendingPaired  BY DEF RoleInv
<1> QED  BY <1>1, RoleInvariance, PTL

THEOREM PendingTimes == RolesSpec => []TimesExact
<1>1. RoleInv => TimesExact  BY DEF RoleInv
<1> QED  BY <1>1, RoleInvariance, PTL

-----------------------------------------------------------------------------
\* A completed transfer completes, and did wait.
LEMMA CompleteWaited ==
  ASSUME RoleInv, NEW c \in Addresses, NEW r \in Roles,
         CompleteRoleTransfer(c, r)
  PROVE  Completes(r) /\ now >= proposal[r].at + TransferDelay
<1> USE DEF RoleInv, CompleteRoleTransfer
<1>1. pendingTo[r] # None /\ pendingTo'[r] = None
  BY DEF RolesTypeOK
<1>2. /\ Len(members'[r]) \in 1..Len(members'[r])
      /\ members'[r][Len(members'[r])] = pendingTo[r]
  <2> HIDE DEF CompleteRoleTransfer
  <2>1. /\ Len(members'[r]) \in 1..MaxMembers
        /\ members'[r][Len(members'[r])] = pendingTo[r]
    BY CompleteEffect
  <2>2. Len(members'[r]) \in 1..Len(members'[r])
    BY <2>1, RoleAssumption
  <2> QED  BY <2>1, <2>2
<1>3. now >= proposal[r].at + TransferDelay
  BY DEF TimesExact
<1> QED  BY <1>1, <1>2, <1>3 DEF Completes

\* Every change of a role's table is authorised by a holder of one of its
\* assigner roles, now or a full delay ago, or is the unguarded initialisation.
THEOREM TablesAlwaysGuarded == RolesSpec => TablesGuarded
<1>1. RoleInv /\ [RolesNext]_<<ledgerVars, rolesVars>> =>
        [\A r \in Roles : members'[r] # members[r] =>
           \/ Starts(r)
           \/ signer' # None /\ MayManage(signer', r)
           \/ Completes(r) /\ now >= proposal[r].at + TransferDelay]_<<ledgerVars, rolesVars>>
  <2> SUFFICES ASSUME RoleInv, RolesNext, NEW r \in Roles, members'[r] # members[r]
               PROVE  \/ Starts(r)
                      \/ signer' # None /\ MayManage(signer', r)
                      \/ /\ Completes(r)
                         /\ now >= proposal[r].at + TransferDelay
    OBVIOUS
  <2> USE DEF RoleInv
  <2>1. CASE Tick /\ UNCHANGED rolesVars  BY <2>1 DEF rolesVars
  <2>2. ASSUME NEW a \in Addresses, InitializeRbac(a)
        PROVE  Starts(r)
    BY <2>2 DEF InitializeRbac, Unsigned, Starts, RolesTypeOK
  <2>3. ASSUME NEW c \in Addresses, NEW q \in Roles, CompleteRoleTransfer(c, q)
        PROVE  Completes(r) /\ now >= proposal[r].at + TransferDelay
    <3>1. q = r  BY <2>3, CompleteEffect
    <3> QED  BY <2>3, <3>1, CompleteWaited
  <2>4. ASSUME NEW c \in Addresses, NEW q \in Roles, CancelRoleTransfer(c, q)
        PROVE  FALSE
    BY <2>4 DEF CancelRoleTransfer
  <2>5. ASSUME NEW c \in Addresses, NEW q \in Roles, NEW a \in Addresses,
               \/ AssignRole(c, q, a) \/ RevokeRole(c, q, a)
               \/ InitiateRoleTransfer(c, q, a)
        PROVE  signer' # None /\ MayManage(signer', r)
    <3>1. signer' = c /\ c # None
      BY <2>5, Absent DEF AssignRole, RevokeRole, InitiateRoleTransfer, SignedBy
    <3>2. q = r
      BY <2>5 DEF AssignRole, RevokeRole, InitiateRoleTransfer, RolesTypeOK
    <3>3. MayManage(c, q)
      BY <2>5 DEF AssignRole, RevokeRole, InitiateRoleTransfer
    <3> QED  BY <3>1, <3>2, <3>3
  <2> QED  BY <2>1, <2>2, <2>3, <2>4, <2>5 DEF RolesNext
<1> QED  BY <1>1, RoleInvariance, PTL DEF RolesSpec, TablesGuarded

\* A pending transfer appears, changes or goes only as it should.
THEOREM ProposalsAlwaysGuarded == RolesSpec => ProposalsGuarded
<1>1. RoleInv /\ [RolesNext]_<<ledgerVars, rolesVars>> =>
        [\A r \in Roles : proposal'[r] # proposal[r] =>
           \/ proposal'[r] # None /\ MayManage(proposal'[r].by, r)
           \/ proposal'[r] = None /\ signer' \in Holders("Admin")
           \/ Completes(r) /\ now >= proposal[r].at + TransferDelay]_<<ledgerVars, rolesVars>>
  <2> SUFFICES ASSUME RoleInv, RolesNext, NEW r \in Roles, proposal'[r] # proposal[r]
               PROVE  \/ proposal'[r] # None /\ MayManage(proposal'[r].by, r)
                      \/ proposal'[r] = None /\ signer' \in Holders("Admin")
                      \/ /\ Completes(r)
                         /\ now >= proposal[r].at + TransferDelay
    OBVIOUS
  <2> USE DEF RoleInv
  <2>1. CASE Tick /\ UNCHANGED rolesVars  BY <2>1 DEF rolesVars
  <2>2. ASSUME NEW a \in Addresses, InitializeRbac(a) PROVE FALSE
    BY <2>2 DEF InitializeRbac
  <2>3. ASSUME NEW c \in Addresses, NEW q \in Roles, CompleteRoleTransfer(c, q)
        PROVE  Completes(r) /\ now >= proposal[r].at + TransferDelay
    <3>1. q = r  BY <2>3 DEF CompleteRoleTransfer, RolesTypeOK
    <3> QED  BY <2>3, <3>1, CompleteWaited
  <2>4. ASSUME NEW c \in Addresses, NEW q \in Roles, CancelRoleTransfer(c, q)
        PROVE  proposal'[r] = None /\ signer' \in Holders("Admin")
    <3>1. q = r  BY <2>4 DEF CancelRoleTransfer, RolesTypeOK
    <3>2. proposal'[r] = None  BY <2>4, <3>1 DEF CancelRoleTransfer, RolesTypeOK
    <3>3. signer' \in Holders("Admin")  BY <2>4 DEF CancelRoleTransfer, SignedBy
    <3> QED  BY <3>2, <3>3
  <2>5. ASSUME NEW c \in Addresses, NEW q \in Roles, NEW a \in Addresses,
               AssignRole(c, q, a) \/ RevokeRole(c, q, a)
        PROVE  FALSE
    BY <2>5 DEF AssignRole, RevokeRole
  <2>6. ASSUME NEW c \in Addresses, NEW q \in Roles, NEW a \in Addresses,
               InitiateRoleTransfer(c, q, a)
        PROVE  proposal'[r] # None /\ MayManage(proposal'[r].by, r)
    <3>1. q = r  BY <2>6 DEF InitiateRoleTransfer, RolesTypeOK
    <3>2. proposal'[r] = [by |-> c, at |-> now]
      BY <2>6, <3>1 DEF InitiateRoleTransfer, RolesTypeOK
    <3>3. MayManage(c, r)  BY <2>6, <3>1 DEF InitiateRoleTransfer
    <3>4. [by |-> c, at |-> now] # None  BY LedgerAssumption, Absent DEF LedgerTypeOK
    <3>5. proposal'[r].by = c  BY <3>2
    <3> QED  BY <3>2, <3>3, <3>4, <3>5
  <2> QED  BY <2>1, <2>2, <2>3, <2>4, <2>5, <2>6 DEF RolesNext
<1> QED  BY <1>1, RoleInvariance, PTL DEF RolesSpec, ProposalsGuarded

\* Whoever a transfer takes the role from has lost it in every copy.
THEOREM HandoversComplete == RolesSpec => HandoverComplete
<1>1. RoleInv /\ [RolesNext]_<<ledgerVars, rolesVars>> =>
        [\A r \in Roles :
           Completes(r) /\ members[r] # <<>> /\ members' # members =>
             \A i \in 1..Len(members'[r]) :
               members'[r][i] = Head(members[r]) =>
                 Head(members[r]) = pendingTo[r]]_<<ledgerVars, rolesVars>>
  <2> SUFFICES ASSUME RoleInv, RolesNext, NEW r \in Roles, Completes(r),
                      members' # members,
                      NEW i \in 1..Len(members'[r]),
                      members'[r][i] = Head(members[r])
               PROVE  Head(members[r]) = pendingTo[r]
    OBVIOUS
  <2> USE DEF RoleInv
  <2>1. PICK c \in Addresses, q \in Roles : CompleteRoleTransfer(c, q)
    BY DEF RolesNext, rolesVars, InitializeRbac, CancelRoleTransfer, AssignRole,
           RevokeRole, InitiateRoleTransfer, Completes, RolesTypeOK
  <2>2. q = r
    BY <2>1 DEF CompleteRoleTransfer, Completes, RolesTypeOK
  <2>3. /\ Len(members'[r]) \in 1..MaxMembers
        /\ members'[r][Len(members'[r])] = pendingTo[r]
        /\ \A j \in 1..(Len(members'[r]) - 1) :
             members'[r][j] # Head(members[r])
    BY <2>1, <2>2, CompleteEffect
  <2>4. i = Len(members'[r])
    BY <2>3
  <2> QED  BY <2>3, <2>4
<1> QED  BY <1>1, RoleInvariance, PTL DEF RolesSpec, HandoverComplete

\* Transfers are guarded from the proposal to the handover.
THEOREM TransfersAlwaysGuarded == RolesSpec => TransfersGuarded
  BY ProposalsAlwaysGuarded, HandoversComplete, PTL DEF TransfersGuarded
=============================================================================
