------------------------------- MODULE Loops -------------------------------
(***************************************************************************)
(* What the contract's loops compute.  It keeps running totals             *)
(* (TotalRaised, TotalPledged) beside the per-address entries they are     *)
(* meant to add up, and adds entries one address at a time: Sum.  It takes *)
(* a value out of a stored list by copying the list without it: Without.   *)
(* Both are recursive functions, so that LoopProofs can prove what they    *)
(* compute.                                                                *)
(***************************************************************************)
EXTENDS Integers, Sequences, FiniteSets, Functions

\* Some order in which a loop may visit the finite set S.
Enumeration(S) == CHOOSE e \in Bijection(1..Cardinality(S), S) : TRUE

\* PrefixSums(a, n)[i] is a[1] + ... + a[i].
PrefixSums(a, n) ==
  LET upTo[i \in 0..n] == IF i = 0 THEN 0 ELSE upTo[i-1] + a[i]
  IN  upTo

\* The sum of f[x] for x in the finite set S.
Sum(f, S) ==
  LET e == Enumeration(S)
      n == Cardinality(S)
  IN  PrefixSums([i \in 1..n |-> f[e[i]]], n)[n]

\* The positions at which a list holds a member of P.
Hits(list, P) == {i \in DOMAIN list : list[i] \in P}

\* Where a loop stops that looks for the first of the positions I: the least of
\* some numbers.
First(I) == CHOOSE i \in I : \A j \in I : i <= j
-----------------------------------------------------------------------------
\* Mutant: only the first copy goes.
WithoutFirstCopy(list, a) ==
  LET at == {i \in 1..Len(list) : list[i] = a}
  IN  IF at = {} THEN list
      ELSE SubSeq(list, 1, First(at) - 1) \o SubSeq(list, First(at) + 1, Len(list))

\* A list copied in a loop that leaves out the members of gone:
\* Kept(list, gone)[n] is what the first n turns keep.
Kept(list, gone) ==
  LET kept[n \in 0..Len(list)] ==
        IF n = 0 THEN <<>>
        ELSE IF list[n] \in gone THEN kept[n-1] ELSE Append(kept[n-1], list[n])
  IN  kept
WithoutAll(list, gone) == Kept(list, gone)[Len(list)]

\* The loop of revoke_role, complete_role_transfer and
\* deregister_trusted_contract: the list with every copy of a left out.
Without(list, a) == WithoutAll(list, {a})
=============================================================================
