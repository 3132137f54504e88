------------------------------- MODULE Session -------------------------------
(***************************************************************************)
(* The session tokens of session_management.rs: one record per address,    *)
(* good for one use until it expires.                                      *)
(***************************************************************************)
EXTENDS Ledger

CONSTANTS MinTtl,  \* MIN_SESSION_TTL_SECONDS, 60 in the code
          MaxTtl,  \* MAX_SESSION_TTL_SECONDS, 3600 in the code
          Ttls     \* the lifetimes create_session is called with

ASSUME SessionAssumption ==
  /\ MinTtl \in Nat /\ MaxTtl \in Nat /\ Ttls \subseteq Nat
  /\ None \notin [expiresAt : Nat, used : BOOLEAN]

VARIABLES
  session,   \* SessionKey::Session(a)
  openedAt,  \* history: when the latest session of a was created
  uses       \* history: how often it was validated
sessionVars == <<session, openedAt, uses>>

-----------------------------------------------------------------------------
\* is_session_expired: the last second still counts.
Expired(expiresAt) == now > expiresAt

\* An existing session that create_session will not replace.
Live(a) ==
  session[a] # None /\ ~session[a].used /\ ~Expired(session[a].expiresAt)

\* Mutant: there is no upper limit.
ValidTtlNoMax(ttl) == ttl >= MinTtl

\* validate_ttl
ValidTtl(ttl) == ttl >= MinTtl /\ ttl <= MaxTtl

-----------------------------------------------------------------------------
SessionInit ==
  /\ session  = [a \in Addresses |-> None]
  /\ openedAt = [a \in Addresses |-> None]
  /\ uses     = [a \in Addresses |-> 0]

\* What create_session asks for: a lifetime within the limits, and no session
\* that is still live.
CreateOpen(a, ttl) == ValidTtl(ttl) /\ ~Live(a)

CreateSession(a, ttl) ==
  /\ CreateOpen(a, ttl)
  /\ session'  = [session EXCEPT ![a] =
                    [expiresAt |-> now + ttl, used |-> FALSE]]
  /\ openedAt' = [openedAt EXCEPT ![a] = now]
  /\ uses'     = [uses EXCEPT ![a] = 0]
  /\ SignedBy(a)

\* The checks of validate_session, in their order.
ValidateOpen(a) ==
  /\ session[a] # None
  /\ ~Expired(session[a].expiresAt)
  /\ ~session[a].used

\* Mutant: the session is not marked.
ValidateKeepsUnused(a) ==
  /\ ValidateOpen(a)
  /\ uses' = [uses EXCEPT ![a] = @ + 1]
  /\ Unsigned
  /\ UNCHANGED <<session, openedAt>>

\* validate_session asks for no signature; the caller names the address.
ValidateSession(a) ==
  /\ ValidateOpen(a)
  /\ session' = [session EXCEPT ![a].used = TRUE]
  /\ uses'    = [uses EXCEPT ![a] = @ + 1]
  /\ Unsigned
  /\ UNCHANGED openedAt

RevokeSession(a) ==
  /\ session' = [session EXCEPT ![a] = None]
  /\ SignedBy(a)
  /\ UNCHANGED <<openedAt, uses>>

SessionNext ==
  \/ Tick /\ UNCHANGED sessionVars
  \/ \E a \in Addresses : \/ ValidateSession(a) \/ RevokeSession(a)
                          \/ \E ttl \in Ttls : CreateSession(a, ttl)

SessionSpec ==
  LedgerInit /\ SessionInit /\ [][SessionNext]_<<ledgerVars, sessionVars>>

-----------------------------------------------------------------------------
\* Records with an expiry in reach of the longest lifetime.
SessionTypeOK ==
  /\ session \in [Addresses ->
       [expiresAt : 0..(MaxTime + MaxTtl), used : BOOLEAN] \cup {None}]
  /\ openedAt \in [Addresses -> 0..MaxTime \cup {None}]
  /\ uses \in [Addresses -> Nat]

\* A session authorises one operation, however it is created, used, revoked
\* and created again; the record says whether it did.
ValidatedOnce ==
  \A a \in Addresses :
    /\ uses[a] <= 1
    /\ session[a] # None => (session[a].used <=> uses[a] = 1)

\* A use falls between the creation and the longest lifetime after it.
ValidatedInTime ==
  [][\A a \in Addresses : uses'[a] > uses[a] =>
       /\ openedAt[a] # None
       /\ openedAt[a] <= now /\ now - openedAt[a] <= MaxTtl]_<<ledgerVars, sessionVars>>

\* In every second an address can either use its session or open a new one:
\* the two calls judge the same record and leave no gap at the expiry.
OneOrTheOther ==
  \A a \in Addresses, ttl \in Ttls :
    ValidTtl(ttl) => (CreateOpen(a, ttl) <=> ~ValidateOpen(a))
=============================================================================
