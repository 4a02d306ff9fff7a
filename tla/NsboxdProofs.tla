---------------------------- MODULE NsboxdProofs ----------------------------
(***************************************************************************)
(* Proofs about what nsboxd does before and after nspawn.                  *)
(*                                                                         *)
(* Network, for any set of containers, any links of others, any length of  *)
(* names and any number of faults: types, that names fit, that an          *)
(* interface in use stays trusted, and that none is forgotten.             *)
(*                                                                         *)
(* PrivateDirs, for any names, any arguments of -private-dirs and any      *)
(* bounds: that nsboxd accepts what nsbox config saved, that a list is     *)
(* what was asked for, that what is listed is private, and the user's.     *)
(***************************************************************************)
EXTENDS Network, PrivateDirs, SequenceTheorems, WellFoundedInduction, TLAPS

-----------------------------------------------------------------------------
(***************************************************************************)
(* Network                                                                 *)
(***************************************************************************)
\* From the answer of firewalld on.
Trusting(c) == pc[c] \in {"starting", "up", "closing"}

\* The name so far fits; one that is taken was free.
FitInv ==
    \A c \in Containers :
        /\ pc[c] = "naming" \/ Active(c) => Len(name[c]) <= MaxBaseLength
        /\ Active(c) => ~Exists(c)

\* Two nsboxds that use one name are both known to share it.
SharedInv ==
    \A c, d \in Containers :
        c # d /\ Active(c) /\ Active(d) /\ name[c] = name[d] => c \in shared

OwnsInv == \A c \in Containers : owns[c] => Trusting(c)

TrustInv ==
    \A c \in Containers \ shared : Trusting(c) /\ owns[c] => name[c] \in trusted

IInv == FitInv /\ SharedInv /\ OwnsInv /\ TrustInv /\ NothingForgotten

-----------------------------------------------------------------------------
(***************************************************************************)
(* Types                                                                   *)
(***************************************************************************)
LEMMA TruncatedFits ==
    ASSUME NEW c \in Containers
    PROVE  /\ Truncated(c) \in Seq(Letters)
           /\ Len(Truncated(c)) \in Nat
           /\ Len(Truncated(c)) <= MaxBaseLength
<1>1. c \in Seq(Letters) /\ MaxBaseLength \in Nat
  BY NetworkAssumption
<1>2. CASE Len(c) > MaxBaseLength
  <2>1. \A i \in 1..MaxBaseLength : c[i] \in Letters
    BY <1>1, <1>2, LenProperties
  <2>2. /\ SubSeq(c, 1, MaxBaseLength) \in Seq(Letters)
        /\ Len(SubSeq(c, 1, MaxBaseLength)) =
               IF 1 <= MaxBaseLength THEN MaxBaseLength - 1 + 1 ELSE 0
    BY <1>1, <2>1, SubSeqProperties
  <2> QED BY <1>1, <1>2, <2>2 DEF Truncated
<1>3. CASE ~(Len(c) > MaxBaseLength)
  BY <1>1, <1>3, LenProperties DEF Truncated
<1> QED BY <1>2, <1>3

LEMMA LinksTyped == TypeOK => Links \subseteq LinkNames
<1> SUFFICES ASSUME TypeOK, NEW link \in Links
             PROVE  link \in LinkNames
  OBVIOUS
<1>1. CASE link \in {Plain(n) : n \in Others}
  <2>1. PICK n \in Others : link = Plain(n)
    BY <1>1
  <2>2. n \in Seq(Letters)
    BY NetworkAssumption
  <2> QED BY <2>1, <2>2 DEF Plain, LinkNames
<1>2. CASE link \in {Zone(name[c]) : c \in {d \in Containers : pc[d] = "up"}}
  <2>1. PICK c \in Containers : link = Zone(name[c])
    BY <1>2
  <2>2. name[c] \in Seq(Letters)
    BY DEF TypeOK
  <2> QED BY <2>1, <2>2 DEF Zone, LinkNames
<1> QED BY <1>1, <1>2 DEF Links

LEMMA InitTyped == Init => TypeOK
<1> SUFFICES ASSUME Init PROVE TypeOK
  OBVIOUS
<1>1. <<>> \in Seq(Letters) /\ Len(<<>>) = 0
  OBVIOUS
<1> QED BY <1>1, NetworkAssumption DEF Init, TypeOK

\* What a change of one letter leaves of a name.
LEMMA ChangeTyped ==
    ASSUME TypeOK, NEW c \in Containers, Change(c)
    PROVE  /\ name' \in [Containers -> Seq(Letters)]
           /\ \A d \in Containers : Len(name'[d]) = Len(name[d])
           /\ \A d \in Containers \ {c} : name'[d] = name[d]
<1>1. PICK l \in Letters : name' = [name EXCEPT ![c][letters[c]] = l]
  BY DEF Change
<1>2. /\ name[c] \in Seq(Letters)
      /\ letters[c] \in 1..Len(name[c])
  <2>1. name[c] \in Seq(Letters) /\ Len(name[c]) \in Nat
    BY LenProperties DEF TypeOK
  <2>2. letters[c] \in Nat /\ letters[c] <= Len(name[c]) /\ letters[c] > 0
    BY DEF TypeOK, Change
  <2> QED BY <2>1, <2>2
<1> DEFINE changed == [name[c] EXCEPT ![letters[c]] = l]
<1>3. changed \in Seq(Letters) /\ Len(changed) = Len(name[c])
  BY <1>2, ExceptSeq
<1>4. name' = [name EXCEPT ![c] = changed]
  BY <1>1
<1> HIDE DEF changed
<1> QED BY <1>3, <1>4 DEF TypeOK

LEMMA NextTyped == TypeOK /\ [Next]_vars => TypeOK'
<1> SUFFICES ASSUME TypeOK, [Next]_vars PROVE TypeOK'
  OBVIOUS
<1> USE NetworkAssumption
<1>1. ASSUME NEW c \in Containers, ListLinks(c) PROVE TypeOK'
  <2>1. /\ name' = [name EXCEPT ![c] = Truncated(c)]
        /\ letters' = [letters EXCEPT ![c] = Len(Truncated(c))]
    BY <1>1 DEF ListLinks, TypeOK
  <2>2. /\ name' \in [Containers -> Seq(Letters)]
        /\ letters' \in [Containers -> Nat]
        /\ \A d \in Containers : letters'[d] <= Len(name'[d])
    <3>1. /\ name \in [Containers -> Seq(Letters)]
          /\ letters \in [Containers -> Nat]
          /\ \A d \in Containers : letters[d] <= Len(name[d])
      BY DEF TypeOK
    <3>2. /\ name'[c] = Truncated(c) /\ letters'[c] = Len(Truncated(c))
          /\ \A d \in Containers \ {c} : /\ name'[d] = name[d]
                                         /\ letters'[d] = letters[d]
      BY <2>1, <3>1
    <3>3. name' \in [Containers -> Seq(Letters)]
      BY <2>1, <3>1, TruncatedFits
    <3>4. letters' \in [Containers -> Nat]
      BY <2>1, <3>1, TruncatedFits
    <3>5. ASSUME NEW d \in Containers PROVE letters'[d] <= Len(name'[d])
      <4>1. CASE d = c
        BY <3>2, <4>1, TruncatedFits
      <4>2. CASE d # c
        BY <3>1, <3>2, <4>2
      <4> QED BY <4>1, <4>2
    <3> QED BY <3>3, <3>4, <3>5
  <2>3. seen' \in [Containers -> SUBSET LinkNames]
    BY <1>1, LinksTyped DEF ListLinks, TypeOK
  <2> QED BY <1>1, <2>2, <2>3 DEF ListLinks, Goto, TypeOK
<1>2. ASSUME NEW c \in Containers, Change(c) PROVE TypeOK'
  <2>1. /\ letters' \in [Containers -> Nat]
        /\ \A d \in Containers : letters'[d] <= letters[d]
    <3>1. /\ letters \in [Containers -> Nat]
          /\ letters' = [letters EXCEPT ![c] = @ - 1]
          /\ letters[c] > 0
      BY <1>2 DEF Change, TypeOK
    <3> QED BY <3>1
  <2>2. \A d \in Containers : letters'[d] <= Len(name'[d])
    <3>1. \A d \in Containers : /\ Len(name'[d]) = Len(name[d])
                                /\ Len(name[d]) \in Nat
                                /\ letters[d] \in Nat /\ letters'[d] \in Nat
                                /\ letters[d] <= Len(name[d])
      BY <1>2, <2>1, ChangeTyped, LenProperties DEF TypeOK
    <3> QED BY <2>1, <3>1
  <2> QED BY <1>2, <2>1, <2>2, ChangeTyped DEF Change, TypeOK
<1>3. ASSUME NEW c \in Containers, Unique(c) PROVE TypeOK'
  <2>1. shared' \subseteq Containers
    BY <1>3 DEF Unique, TypeOK
  <2>2. pc' \in [Containers ->
                   {"down", "naming", "named", "starting", "up", "closing"}]
    BY <1>3 DEF Unique, Goto, TypeOK
  <2>3. UNCHANGED <<naming, owns, trusted, left, faults>>
    BY <1>3 DEF Unique
  <2> QED BY <2>1, <2>2, <2>3 DEF naming, TypeOK
<1>4. ASSUME NEW c \in Containers, NotUnique(c) \/ StartNspawn(c) \/ Return(c)
      PROVE  TypeOK'
  BY <1>4 DEF NotUnique, StartNspawn, Return, Goto, naming, TypeOK
<1>5. ASSUME NEW c \in Containers, Trust(c) \/ Untrust(c) \/ Killed(c)
      PROVE  TypeOK'
  <2>1. pc' \in [Containers ->
                   {"down", "naming", "named", "starting", "up", "closing"}]
    BY <1>5 DEF Trust, Untrust, Killed, TrustInterface, UntrustInterface,
        NoFirewall, Goto, TypeOK
  <2>2. owns' \in [Containers -> BOOLEAN]
    BY <1>5 DEF Trust, Untrust, Killed, TrustInterface, UntrustInterface,
        NoFirewall, TypeOK
  <2>3. name[c] \in Seq(Letters)
    BY DEF TypeOK
  <2>4. trusted' \subseteq Seq(Letters) /\ left' \subseteq Seq(Letters)
    BY <1>5, <2>3 DEF Trust, Untrust, Killed, TrustInterface, UntrustInterface,
        NoFirewall, TypeOK
  <2>5. faults' \in 0..MaxFaults
    BY <1>5 DEF Trust, Untrust, Killed, TrustInterface, UntrustInterface,
        NoFirewall, TypeOK
  <2>6. UNCHANGED <<naming, shared>>
    BY <1>5 DEF Trust, Untrust, Killed, TrustInterface, UntrustInterface,
        NoFirewall
  <2> QED BY <2>1, <2>2, <2>4, <2>5, <2>6 DEF naming, TypeOK
<1>6. CASE UNCHANGED vars
  BY <1>6 DEF vars, naming, TypeOK
<1> QED BY <1>1, <1>2, <1>3, <1>4, <1>5, <1>6 DEF Next

\* Every variable of Network keeps its type; in particular the letters still to
\* be changed are letters of the name (network.go:57-60).
THEOREM Typing == Spec => []TypeOK
  BY InitTyped, NextTyped, PTL DEF Spec

-----------------------------------------------------------------------------
(***************************************************************************)
(* The invariant                                                           *)
(***************************************************************************)
LEMMA InitInv == Init => IInv
  BY DEF Init, IInv, FitInv, SharedInv, OwnsInv, TrustInv, NothingForgotten,
         Active, Trusting

\* While an nsboxd looks for a name, it has no part in the others' affairs.
LEMMA ListLinksInv ==
    ASSUME TypeOK, IInv, NEW c \in Containers, ListLinks(c)
    PROVE  IInv'
<1>1. /\ pc[c] = "down" /\ pc'[c] = "naming"
      /\ \A d \in Containers \ {c} : /\ pc'[d] = pc[d]
                                     /\ name'[d] = name[d]
                                     /\ seen'[d] = seen[d]
      /\ name'[c] = Truncated(c)
      /\ shared' = shared \ {c}
      /\ UNCHANGED <<owns, trusted, left>>
  BY DEF ListLinks, Goto, TypeOK
<1>2. FitInv'
  BY <1>1, TruncatedFits DEF IInv, FitInv, Active, Exists
<1>3. SharedInv'
  BY <1>1 DEF IInv, SharedInv, Active
<1>4. OwnsInv' /\ ~owns[c]
  BY <1>1 DEF IInv, OwnsInv, Trusting
<1>5. TrustInv'
  BY <1>1, <1>4 DEF IInv, TrustInv, Trusting
<1>6. NothingForgotten'
  BY <1>1, <1>4 DEF IInv, NothingForgotten, Active
<1> QED BY <1>2, <1>3, <1>4, <1>5, <1>6 DEF IInv

LEMMA ChangeInv ==
    ASSUME TypeOK, IInv, NEW c \in Containers, Change(c)
    PROVE  IInv'
<1>1. /\ pc[c] = "naming"
      /\ \A d \in Containers \ {c} : name'[d] = name[d]
      /\ \A d \in Containers : Len(name'[d]) = Len(name[d])
      /\ UNCHANGED <<pc, seen, owns, trusted, shared, left>>
  BY ChangeTyped DEF Change
<1>2. FitInv'
  BY <1>1 DEF IInv, FitInv, Active, Exists
<1>3. SharedInv'
  BY <1>1 DEF IInv, SharedInv, Active
<1>4. OwnsInv' /\ ~owns[c]
  BY <1>1 DEF IInv, OwnsInv, Trusting
<1>5. TrustInv'
  BY <1>1 DEF IInv, TrustInv, Trusting
<1>6. NothingForgotten'
  BY <1>1, <1>4 DEF IInv, NothingForgotten, Active
<1> QED BY <1>2, <1>3, <1>4, <1>5, <1>6 DEF IInv

\* Whoever takes a name that is in use becomes known to share it, with all
\* who use it.
LEMMA UniqueInv ==
    ASSUME TypeOK, IInv, NEW c \in Containers, Unique(c)
    PROVE  IInv'
<1> DEFINE same == {d \in Containers \ {c} : Active(d) /\ name[d] = name[c]}
<1>1. /\ pc[c] = "naming" /\ pc'[c] = "named" /\ ~Exists(c)
      /\ \A d \in Containers \ {c} : pc'[d] = pc[d]
      /\ shared' = shared \cup UNION {{c, d} : d \in same}
      /\ UNCHANGED <<name, seen, owns, trusted, left>>
  BY DEF Unique, Goto, TypeOK, naming
<1>2. /\ shared \subseteq shared' /\ same \subseteq shared'
      /\ same # {} => c \in shared'
  BY <1>1
<1>3. FitInv'
  BY <1>1 DEF IInv, FitInv, Active, Exists
<1>4. SharedInv'
  <2> SUFFICES ASSUME NEW a \in Containers, NEW d \in Containers, a # d,
                      Active(a)', Active(d)', name[a] = name[d]
               PROVE  a \in shared'
    BY <1>1 DEF SharedInv
  <2>1. CASE a = c
    <3>1. d \in same
      BY <1>1, <2>1 DEF Active
    <3> QED BY <1>2, <2>1, <3>1
  <2>2. CASE d = c
    <3>1. a \in same
      BY <1>1, <2>2 DEF Active
    <3> QED BY <1>2, <3>1
  <2>3. CASE a # c /\ d # c
    BY <1>1, <1>2, <2>3 DEF IInv, SharedInv, Active
  <2> QED BY <2>1, <2>2, <2>3
<1> HIDE DEF same
<1>5. OwnsInv' /\ ~owns[c]
  BY <1>1 DEF IInv, OwnsInv, Trusting
<1>6. TrustInv'
  BY <1>1, <1>2, <1>5 DEF IInv, TrustInv, Trusting
<1>7. NothingForgotten'
  BY <1>1, <1>5 DEF IInv, NothingForgotten, Active
<1> QED BY <1>3, <1>4, <1>5, <1>6, <1>7 DEF IInv

LEMMA NotUniqueInv ==
    ASSUME TypeOK, IInv, NEW c \in Containers, NotUnique(c)
    PROVE  IInv'
<1>1. /\ pc[c] = "naming" /\ pc'[c] = "down"
      /\ \A d \in Containers \ {c} : pc'[d] = pc[d]
      /\ UNCHANGED <<name, seen, owns, trusted, shared, left>>
  BY DEF NotUnique, Goto, TypeOK, naming
<1>2. FitInv' /\ SharedInv'
  BY <1>1 DEF IInv, FitInv, SharedInv, Active, Exists
<1>3. OwnsInv' /\ ~owns[c]
  BY <1>1 DEF IInv, OwnsInv, Trusting
<1>4. TrustInv' /\ NothingForgotten'
  BY <1>1, <1>3 DEF IInv, TrustInv, NothingForgotten, Active, Trusting
<1> QED BY <1>2, <1>3, <1>4 DEF IInv

LEMMA TrustStepInv ==
    ASSUME TypeOK, IInv, NEW c \in Containers, Trust(c)
    PROVE  IInv'
<1>1. /\ pc[c] = "named" /\ pc'[c] = "starting"
      /\ \A d \in Containers \ {c} : pc'[d] = pc[d] /\ owns'[d] = owns[d]
      /\ UNCHANGED <<name, seen, shared>>
      /\ \/ /\ trusted' = trusted \cup {name[c]}
            /\ left' = left \ {name[c]}
            /\ owns'[c]
         \/ UNCHANGED <<trusted, left>> /\ ~owns'[c]
  BY DEF Trust, TrustInterface, NoFirewall, Goto, TypeOK, naming
<1>2. FitInv' /\ SharedInv'
  BY <1>1 DEF IInv, FitInv, SharedInv, Active, Exists
<1>3. OwnsInv' /\ ~owns[c]
  BY <1>1 DEF IInv, OwnsInv, Trusting
<1>4. TrustInv'
  BY <1>1 DEF IInv, TrustInv, Trusting
<1>5. NothingForgotten'
  <2> SUFFICES ASSUME NEW n \in trusted', n \notin left'
               PROVE  \E d \in Containers :
                          Active(d)' /\ owns'[d] /\ name'[d] = n
    BY DEF NothingForgotten
  <2>1. CASE n = name[c] /\ owns'[c]
    BY <1>1, <2>1 DEF Active
  <2>2. CASE ~(n = name[c] /\ owns'[c])
    <3>1. n \in trusted \ left
      BY <1>1, <2>2
    <3>2. PICK d \in Containers : Active(d) /\ owns[d] /\ name[d] = n
      BY <3>1 DEF IInv, NothingForgotten
    <3>3. d # c
      BY <1>3, <3>2
    <3> QED BY <1>1, <3>2, <3>3 DEF Active
  <2> QED BY <2>1, <2>2
<1> QED BY <1>2, <1>3, <1>4, <1>5 DEF IInv

LEMMA RunsInv ==
    ASSUME TypeOK, IInv, NEW c \in Containers, StartNspawn(c) \/ Return(c)
    PROVE  IInv'
<1>1. /\ Trusting(c) /\ Trusting(c)'
      /\ \A d \in Containers \ {c} : pc'[d] = pc[d]
      /\ UNCHANGED <<name, seen, owns, trusted, shared, left>>
  BY DEF StartNspawn, Return, Goto, TypeOK, naming, Trusting
<1>2. \A d \in Containers : /\ Trusting(d)' <=> Trusting(d)
                            /\ Active(d)' <=> Active(d)
                            /\ pc'[d] = "naming" <=> pc[d] = "naming"
  BY <1>1 DEF Trusting, Active
<1>3. FitInv'
  BY <1>1, <1>2 DEF IInv, FitInv, Exists
<1>4. SharedInv' /\ OwnsInv' /\ TrustInv' /\ NothingForgotten'
  BY <1>1, <1>2 DEF IInv, SharedInv, OwnsInv, TrustInv, NothingForgotten
<1> QED BY <1>3, <1>4 DEF IInv

\* The end of an nsboxd takes the trust only from those that share its name.
LEMMA EndsInv ==
    ASSUME TypeOK, IInv, NEW c \in Containers, Untrust(c) \/ Killed(c)
    PROVE  IInv'
<1>1. /\ Active(c) /\ pc'[c] = "down" /\ ~owns'[c]
      /\ \A d \in Containers \ {c} : pc'[d] = pc[d] /\ owns'[d] = owns[d]
      /\ UNCHANGED <<name, seen, shared>>
      /\ left \subseteq left'
      /\ trusted' \subseteq trusted
      /\ trusted \ {name[c]} \subseteq trusted'
      /\ owns[c] /\ name[c] \in trusted' => name[c] \in left'
  BY DEF Untrust, UntrustInterface, Killed, Goto, TypeOK, naming, Active
<1>2. FitInv' /\ SharedInv' /\ OwnsInv'
  BY <1>1 DEF IInv, FitInv, SharedInv, OwnsInv, Active, Trusting, Exists
<1>3. TrustInv'
  <2> SUFFICES ASSUME NEW d \in Containers, d \notin shared,
                      Trusting(d)', owns'[d]
               PROVE  name[d] \in trusted'
    BY <1>1 DEF TrustInv
  <2>1. d # c
    BY <1>1
  <2>2. name[d] \in trusted
    BY <1>1, <2>1 DEF IInv, TrustInv, Trusting
  <2>3. Active(d)
    BY <1>1, <2>1 DEF Trusting, Active
  <2>4. name[d] # name[c]
    BY <1>1, <2>1, <2>3 DEF IInv, SharedInv
  <2> QED BY <1>1, <2>2, <2>4
<1>4. NothingForgotten'
  <2> SUFFICES ASSUME NEW n \in trusted', n \notin left'
               PROVE  \E d \in Containers :
                          Active(d)' /\ owns'[d] /\ name'[d] = n
    BY DEF NothingForgotten
  <2>1. n \in trusted \ left
    BY <1>1
  <2>2. PICK d \in Containers : Active(d) /\ owns[d] /\ name[d] = n
    BY <2>1 DEF IInv, NothingForgotten
  <2>3. d # c
    BY <1>1, <2>2
  <2> QED BY <1>1, <2>2, <2>3 DEF Active
<1> QED BY <1>2, <1>3, <1>4 DEF IInv

LEMMA NextInv == TypeOK /\ IInv /\ [Next]_vars => IInv'
<1> SUFFICES ASSUME TypeOK, IInv, [Next]_vars PROVE IInv'
  OBVIOUS
<1>1. CASE Next
  BY <1>1, ListLinksInv, ChangeInv, UniqueInv, NotUniqueInv, TrustStepInv,
     RunsInv, EndsInv DEF Next
<1>2. CASE UNCHANGED vars
  BY <1>2 DEF vars, naming, IInv, FitInv, SharedInv, OwnsInv, TrustInv,
              NothingForgotten, Active, Trusting, Exists
<1> QED BY <1>1, <1>2

LEMMA Invariance == Spec => []IInv
  BY InitInv, NextInv, Typing, PTL DEF Spec

-----------------------------------------------------------------------------
\* The interface of a running container stays trusted whatever other nsboxds
\* do, unless one of them has made up the same name (direct.go:321-329).
THEOREM StaysTrusted == Spec => []TrustedWhileUp
<1>1. IInv => TrustedWhileUp
  BY DEF IInv, TrustInv, TrustedWhileUp, Trusting
<1> QED BY <1>1, Invariance, PTL

\* No interface stays trusted without an nsboxd that will untrust it, but for
\* those left by a kill or a refusal (direct.go:324-328).
THEOREM Remembered == Spec => []NothingForgotten
<1>1. IInv => NothingForgotten
  BY DEF IInv
<1> QED BY <1>1, Invariance, PTL

\* Whatever the containers are called, the names made up for their zones fit
\* and are no link's of those that were listed (network.go:46-69).
THEOREM NamesFit == Spec => []NameFits
<1>1. IInv => NameFits
  BY DEF IInv, FitInv, NameFits, Exists
<1> QED BY <1>1, Invariance, PTL

-----------------------------------------------------------------------------
(***************************************************************************)
(* Folds.  Each is the value at 1..n of a function on sets of numbers, and *)
(* what holds of it is shown by the smallest number for which it does not. *)
(***************************************************************************)
\* Induction on a set of numbers, by its smallest element or its largest.
LEMMA Smallest ==
    ASSUME NEW S \in SUBSET Nat, S # {}
    PROVE  \E n \in S : \A m \in S : n <= m
<1> DEFINE Less == {ss \in Nat \X Nat : ss[1] < ss[2]}
<1>1. OpToRel(<, Nat) = Less
  BY DEF OpToRel
<1>2. IsWellFoundedOn(Less, Nat)
  BY <1>1, NatLessThanWellFounded
<1>3. PICK n \in S : \A m \in S : <<m, n>> \notin Less
  BY <1>2, WFMin
<1>4. \A m \in S : ~(m < n)
  BY <1>3
<1> QED BY <1>4

LEMMA Largest ==
    ASSUME NEW n \in Nat, NEW S \in SUBSET (0..n), S # {}
    PROVE  \E x \in S : \A y \in S : x >= y
<1> DEFINE Above0 == {n - x : x \in S}
<1>1. \A x \in S : n - x \in Nat
  OBVIOUS
<1>2. Above0 \in SUBSET Nat /\ Above0 # {}
  BY <1>1
<1>3. PICK b \in Above0 : \A c \in Above0 : b <= c
  BY <1>2, Smallest
<1>4. PICK x \in S : b = n - x
  OBVIOUS
<1>5. \A y \in S : n - x <= n - y
  BY <1>3, <1>4
<1>6. x \in Nat /\ \A y \in S : y \in Nat
  OBVIOUS
<1> HIDE DEF Above0
<1>7. \A y \in S : x >= y
  BY <1>5, <1>6
<1> QED BY <1>7

LEMMA MaxIs ==
    ASSUME NEW n \in Nat, NEW S \in SUBSET (0..n), S # {}
    PROVE  Max(S) \in S /\ \A y \in S : Max(S) >= y
BY Largest DEF Max

\* A property of 0 that goes from each number to the next; the set holds the
\* numbers that have it.
LEMMA Reaches ==
    ASSUME NEW n \in Nat, NEW S, 0 \in S, \A k \in 1..n : k - 1 \in S => k \in S
    PROVE  \A k \in 0..n : k \in S
<1> DEFINE Bad == {k \in 0..n : k \notin S}
<1>1. CASE Bad # {}
  <2>0. Bad \in SUBSET Nat
    OBVIOUS
  <2>1. PICK k \in Bad : \A m \in Bad : k <= m
    BY <1>1, <2>0, Smallest
  <2>2. k \in 1..n /\ k - 1 \notin Bad
    BY <2>1
  <2> QED BY <2>2
<1>2. CASE Bad = {}
  BY <1>2
<1> QED BY <1>1, <1>2

-----------------------------------------------------------------------------
\* The equation of a fold over the numbers up to n, the largest one last.
FoldsBy(n, base, step, f) ==
    \A S \in SUBSET (1..n) :
        f[S] = IF S = {} THEN base ELSE step[<<f[S \ {Max(S)}], Max(S)>>]

LEMMA FoldExists ==
    ASSUME NEW n \in Nat, NEW A, NEW base \in A, NEW step \in [A \X (1..n) -> A]
    PROVE  \E f \in [SUBSET (1..n) -> A] : FoldsBy(n, base, step, f)
<1> DEFINE Done == {m \in 0..n :
                      \E f \in [SUBSET (1..m) -> A] : FoldsBy(m, base, step, f)}
<1>1. 0 \in Done
  <2> DEFINE f == [S \in SUBSET (1..0) |-> base]
  <2>1. SUBSET (1..0) = {{}}
    OBVIOUS
  <2>2. f \in [SUBSET (1..0) -> A] /\ FoldsBy(0, base, step, f)
    BY <2>1 DEF FoldsBy
  <2> HIDE DEF f
  <2>3. 0 \in 0..n
    OBVIOUS
  <2> QED BY <2>2, <2>3
<1>2. ASSUME NEW m \in 1..n, m - 1 \in Done
      PROVE  m \in Done
  <2>1. PICK f \in [SUBSET (1..m - 1) -> A] : FoldsBy(m - 1, base, step, f)
    BY <1>2
  <2> DEFINE g == [S \in SUBSET (1..m) |->
                      IF m \in S THEN step[<<f[S \ {m}], m>>] ELSE f[S]]
  <2>2. \A S \in SUBSET (1..m) : /\ m \notin S => S \in SUBSET (1..m - 1)
                                 /\ S \ {m} \in SUBSET (1..m - 1)
    OBVIOUS
  <2>3. g \in [SUBSET (1..m) -> A]
    BY <2>1, <2>2
  <2>4. ASSUME NEW S \in SUBSET (1..m)
        PROVE  g[S] = IF S = {} THEN base ELSE step[<<g[S \ {Max(S)}], Max(S)>>]
    <3>0. S # {} => Max(S) \in S /\ \A y \in S : Max(S) >= y
      <4>1. m \in Nat /\ S \in SUBSET (0..m)
        OBVIOUS
      <4> QED BY <4>1, MaxIs
    <3>1. CASE m \in S
      <4>1. Max(S) \in 1..m /\ Max(S) >= m
        BY <3>0, <3>1
      <4>2. Max(S) = m
        BY <4>1
      <4>3. g[S \ {m}] = f[S \ {m}] /\ g[S] = step[<<f[S \ {m}], m>>]
        BY <2>2, <3>1
      <4> QED BY <3>1, <4>2, <4>3
    <3>2. CASE m \notin S /\ S # {}
      <4>1. g[S] = f[S] /\ S \in SUBSET (1..m - 1)
        BY <2>2, <3>2
      <4>2. S \ {Max(S)} \in SUBSET (1..m) /\ m \notin S \ {Max(S)}
        BY <3>2
      <4>3. g[S \ {Max(S)}] = f[S \ {Max(S)}]
        BY <4>2
      <4>4. f[S] = step[<<f[S \ {Max(S)}], Max(S)>>]
        BY <2>1, <3>2, <4>1 DEF FoldsBy
      <4> QED BY <3>2, <4>1, <4>3, <4>4
    <3>3. CASE S = {}
      <4>1. {} \in SUBSET (1..m) /\ {} \in SUBSET (1..m - 1)
        OBVIOUS
      <4> QED BY <2>1, <3>3, <4>1 DEF FoldsBy
    <3> QED BY <3>1, <3>2, <3>3
  <2>5. FoldsBy(m, base, step, g)
    BY <2>4 DEF FoldsBy
  <2> HIDE DEF g
  <2> QED BY <2>3, <2>5
<1> HIDE DEF Done
<1>3. n \in Done
  BY <1>1, <1>2, Reaches
<1> QED BY <1>3 DEF Done

LEMMA InitialMax ==
    ASSUME NEW k \in Nat, k > 0
    PROVE  1..k # {} /\ Max(1..k) = k /\ (1..k) \ {k} = 1..k - 1
<1>1. 1..k # {} /\ 1..k \in SUBSET (0..k) /\ k \in 1..k
  OBVIOUS
<1>2. Max(1..k) \in 1..k /\ Max(1..k) >= k
  BY <1>1, MaxIs
<1>3. Max(1..k) = k
  BY <1>2
<1>4. \A j : j \in (1..k) \ {k} <=> j \in 1..k - 1
  OBVIOUS
<1> QED BY <1>1, <1>3, <1>4

\* A fold over a sequence in steps: what is there after each element.
LEMMA ValueSteps ==
    ASSUME NEW args \in Seq(Argument)
    PROVE  \E r : /\ r[0] = [kind |-> "+", items |-> <<>>]
                  /\ \A k \in 1..Len(args) : r[k] = Set(r[k - 1], args[k])
                  /\ Value(args) = r[Len(args)]
<1> DEFINE n == Len(args)
           base == [kind |-> "+", items |-> <<>>]
           step == [s \in Argument \X (1..n) |-> Set(s[1], args[s[2]])]
           Eq(f) == f = [S \in SUBSET DOMAIN args |->
                            IF S = {} THEN base
                            ELSE Set(f[S \ {Max(S)}], args[Max(S)])]
           g == CHOOSE f : Eq(f)
           r == [k \in 0..n |-> g[1..k]]
<1>1. n \in Nat /\ DOMAIN args = 1..n /\ \A k \in 1..n : args[k] \in Argument
  OBVIOUS
<1>2. base \in Argument
  <2>1. <<>> \in Seq(Item)
    OBVIOUS
  <2> QED BY <2>1 DEF Argument
<1>3. \A v, a \in Argument : Set(v, a) \in Argument
  BY DEF Set, Argument
<1>4. step \in [Argument \X (1..n) -> Argument]
  BY <1>1, <1>3
<1>5. PICK f \in [SUBSET (1..n) -> Argument] : FoldsBy(n, base, step, f)
  <2> HIDE DEF step, base, n
  <2> QED BY <1>1, <1>2, <1>4, FoldExists
<1>6. ASSUME NEW S \in SUBSET (1..n), S # {}
      PROVE  f[S] = Set(f[S \ {Max(S)}], args[Max(S)])
  <2>1. S \in SUBSET (0..n)
    BY <1>1
  <2>2. Max(S) \in 1..n
    BY <1>1, <1>6, <2>1, MaxIs
  <2>3. f[S \ {Max(S)}] \in Argument
    OBVIOUS
  <2> QED BY <1>5, <1>6, <2>2, <2>3 DEF FoldsBy
<1>7. Eq(f)
  BY <1>1, <1>5, <1>6 DEF FoldsBy
<1>8. Eq(g)
  BY <1>7
<1>9. Value(args) = g[DOMAIN args]
  BY DEF Value, FoldLeft, MapThenFoldSet
<1>10. r[0] = base
  <2>1. 1..0 = {} /\ {} \in SUBSET DOMAIN args
    OBVIOUS
  <2> HIDE DEF g
  <2> QED BY <1>1, <1>8, <2>1
<1>11. ASSUME NEW k \in 1..n PROVE r[k] = Set(r[k - 1], args[k])
  <2>1. 1..k # {} /\ Max(1..k) = k /\ (1..k) \ {k} = 1..k - 1
    BY <1>1, InitialMax
  <2>2. 1..k \in SUBSET DOMAIN args
    BY <1>1
  <2> HIDE DEF g
  <2>3. g[1..k] = Set(g[1..k - 1], args[k])
    BY <1>8, <2>1, <2>2
  <2> QED BY <1>1, <2>3
<1>12. Value(args) = r[n]
  BY <1>1, <1>9
<1> HIDE DEF r, g
<1> QED BY <1>10, <1>11, <1>12

LEMMA WithoutSteps ==
    ASSUME NEW X, NEW items \in Seq(X), NEW others
    PROVE  \E r : /\ r[0] = <<>>
                  /\ \A k \in 1..Len(items) :
                         r[k] = IF items[k] \in ToSet(others) THEN r[k - 1]
                                ELSE Append(r[k - 1], items[k])
                  /\ Without(items, others) = r[Len(items)]
<1> DEFINE n == Len(items)
           Keep(kept, item) == IF item \in ToSet(others) THEN kept
                               ELSE Append(kept, item)
           step == [s \in Seq(X) \X (1..n) |-> Keep(s[1], items[s[2]])]
           Eq(f) == f = [S \in SUBSET DOMAIN items |->
                            IF S = {} THEN <<>>
                            ELSE IF items[Max(S)] \in ToSet(others)
                                 THEN f[S \ {Max(S)}]
                                 ELSE Append(f[S \ {Max(S)}], items[Max(S)])]
           g == CHOOSE f : Eq(f)
           r == [k \in 0..n |-> g[1..k]]
<1>1. n \in Nat /\ DOMAIN items = 1..n /\ \A k \in 1..n : items[k] \in X
  OBVIOUS
<1>2. <<>> \in Seq(X)
  OBVIOUS
<1>3. \A s \in Seq(X), x \in X : Keep(s, x) \in Seq(X)
  OBVIOUS
<1>4. step \in [Seq(X) \X (1..n) -> Seq(X)]
  <2> HIDE DEF Keep, n
  <2> QED BY <1>1, <1>3
<1>5. PICK f \in [SUBSET (1..n) -> Seq(X)] : FoldsBy(n, <<>>, step, f)
  <2> HIDE DEF step, n
  <2> QED BY <1>1, <1>2, <1>4, FoldExists
<1>6. ASSUME NEW S \in SUBSET (1..n), S # {}
      PROVE  f[S] = Keep(f[S \ {Max(S)}], items[Max(S)])
  <2>1. S \in SUBSET (0..n)
    BY <1>1
  <2>2. Max(S) \in 1..n
    BY <1>1, <1>6, <2>1, MaxIs
  <2>3. f[S \ {Max(S)}] \in Seq(X)
    OBVIOUS
  <2> HIDE DEF Keep
  <2> QED BY <1>5, <1>6, <2>2, <2>3 DEF FoldsBy
<1>7. Eq(f)
  <2>1. \A S \in SUBSET (1..n) :
            f[S] = IF S = {} THEN <<>>
                   ELSE IF items[Max(S)] \in ToSet(others)
                        THEN f[S \ {Max(S)}]
                        ELSE Append(f[S \ {Max(S)}], items[Max(S)])
    BY <1>5, <1>6 DEF FoldsBy
  <2> QED BY <1>1, <2>1
<1>8. Eq(g)
  BY <1>7
<1>9. Without(items, others) = g[DOMAIN items]
  BY DEF Without, FoldLeft, MapThenFoldSet
<1>10. r[0] = <<>>
  <2>1. 1..0 = {} /\ {} \in SUBSET DOMAIN items
    OBVIOUS
  <2> HIDE DEF g
  <2> QED BY <1>1, <1>8, <2>1
<1>11. ASSUME NEW k \in 1..n
       PROVE  r[k] = IF items[k] \in ToSet(others) THEN r[k - 1]
                     ELSE Append(r[k - 1], items[k])
  <2>1. 1..k # {} /\ Max(1..k) = k /\ (1..k) \ {k} = 1..k - 1
    BY <1>1, InitialMax
  <2>2. 1..k \in SUBSET DOMAIN items
    BY <1>1
  <2> HIDE DEF g
  <2>3. g[1..k] = IF items[k] \in ToSet(others) THEN g[1..k - 1]
                  ELSE Append(g[1..k - 1], items[k])
    BY <1>8, <2>1, <2>2
  <2> QED BY <1>1, <2>3
<1>12. Without(items, others) = r[n]
  BY <1>1, <1>9
<1> HIDE DEF r, g
<1> QED BY <1>10, <1>11, <1>12

Chars == {"a", "b", ".", "/"}
Walks == [parts : Seq(Seq(Chars)), part : Seq(Chars)]

LEMMA JoinedTyped ==
    ASSUME NEW parts \in Seq(Seq(Chars)), NEW part \in Seq(Chars)
    PROVE  Joined(parts, part) \in Seq(Seq(Chars))
BY DEF Joined

LEMMA SplitTyped ==
    ASSUME NEW at \in Walks, NEW char \in Chars
    PROVE  Split(at, char) \in Walks
<1>1. Joined(at.parts, at.part) \in Seq(Seq(Chars))
  BY JoinedTyped DEF Walks
<1>2. <<>> \in Seq(Chars) /\ Append(at.part, char) \in Seq(Chars)
  BY DEF Walks
<1> QED BY <1>1, <1>2 DEF Split, Walks

LEMMA PartsSteps ==
    ASSUME NEW item \in Item
    PROVE  \E r \in [0..Len(item) -> Walks] :
               /\ r[0] = [parts |-> <<>>, part |-> <<>>]
               /\ \A k \in 1..Len(item) : r[k] = Split(r[k - 1], item[k])
               /\ Parts(item) = Joined(r[Len(item)].parts, r[Len(item)].part)
<1> DEFINE n == Len(item)
           base == [parts |-> <<>>, part |-> <<>>]
           step == [s \in Walks \X (1..n) |-> Split(s[1], item[s[2]])]
           Eq(f) == f = [S \in SUBSET DOMAIN item |->
                            IF S = {} THEN base
                            ELSE Split(f[S \ {Max(S)}], item[Max(S)])]
           g == CHOOSE f : Eq(f)
           r == [k \in 0..n |-> g[1..k]]
<1>1. n \in Nat /\ DOMAIN item = 1..n /\ \A k \in 1..n : item[k] \in Chars
  BY DEF Item, Chars
<1>2. base \in Walks
  <2>1. <<>> \in Seq(Chars) /\ <<>> \in Seq(Seq(Chars))
    OBVIOUS
  <2> QED BY <2>1 DEF Walks
<1>4. step \in [Walks \X (1..n) -> Walks]
  BY <1>1, SplitTyped
<1>5. PICK f \in [SUBSET (1..n) -> Walks] : FoldsBy(n, base, step, f)
  <2> HIDE DEF step, base, n
  <2> QED BY <1>1, <1>2, <1>4, FoldExists
<1>6. ASSUME NEW S \in SUBSET (1..n), S # {}
      PROVE  f[S] = Split(f[S \ {Max(S)}], item[Max(S)])
  <2>1. S \in SUBSET (0..n)
    BY <1>1
  <2>2. Max(S) \in 1..n
    BY <1>1, <1>6, <2>1, MaxIs
  <2>3. f[S \ {Max(S)}] \in Walks
    OBVIOUS
  <2> QED BY <1>5, <1>6, <2>2, <2>3 DEF FoldsBy
<1>7. Eq(f)
  BY <1>1, <1>5, <1>6 DEF FoldsBy
<1>8. Eq(g)
  BY <1>7
<1>9. Parts(item) = Joined(g[DOMAIN item].parts, g[DOMAIN item].part)
  BY DEF Parts, FoldLeft, MapThenFoldSet
<1>10. r[0] = base
  <2>1. 1..0 = {} /\ {} \in SUBSET DOMAIN item
    OBVIOUS
  <2> HIDE DEF g
  <2> QED BY <1>1, <1>8, <2>1
<1>11. ASSUME NEW k \in 1..n PROVE r[k] = Split(r[k - 1], item[k])
  <2>1. 1..k # {} /\ Max(1..k) = k /\ (1..k) \ {k} = 1..k - 1
    BY <1>1, InitialMax
  <2>2. 1..k \in SUBSET DOMAIN item
    BY <1>1
  <2> HIDE DEF g
  <2>3. g[1..k] = Split(g[1..k - 1], item[k])
    BY <1>8, <2>1, <2>2
  <2> QED BY <1>1, <2>3
<1>12. Parts(item) = Joined(r[n].parts, r[n].part)
  BY <1>1, <1>9
<1> HIDE DEF g
<1>13. r \in [0..n -> Walks]
  <2> DEFINE Typed == {k \in 0..n : r[k] \in Walks}
  <2>1. 0 \in Typed
    BY <1>1, <1>2, <1>10
  <2>2. \A k \in 1..n : k - 1 \in Typed => k \in Typed
    <3> HIDE DEF r
    <3> QED BY <1>1, <1>11, SplitTyped
  <2>3. \A k \in 0..n : k \in Typed
    <3> HIDE DEF Typed
    <3> QED BY <1>1, <2>1, <2>2, Reaches
  <2> QED BY <2>3
<1> HIDE DEF r
<1> QED BY <1>10, <1>11, <1>12, <1>13

LEMMA PartsTyped == \A item \in Item : Parts(item) \in Seq(Seq(Chars))
<1> SUFFICES ASSUME NEW item \in Item PROVE Parts(item) \in Seq(Seq(Chars))
  OBVIOUS
<1>1. Len(item) \in Nat
  BY DEF Item
<1>2. PICK r \in [0..Len(item) -> Walks] :
          Parts(item) = Joined(r[Len(item)].parts, r[Len(item)].part)
  BY PartsSteps
<1>3. r[Len(item)] \in Walks
  BY <1>1
<1> QED BY <1>2, <1>3, JoinedTyped DEF Walks

LEMMA PartsOfHome == <<".">> \in Item => Parts(<<".">>) = <<>>
<1> SUFFICES ASSUME <<".">> \in Item PROVE Parts(<<".">>) = <<>>
  OBVIOUS
<1> DEFINE item == <<".">>
<1>1. item \in Item /\ Len(item) = 1 /\ item[1] = "."
  OBVIOUS
<1> HIDE DEF item
<1>4. PICK r \in [0..Len(item) -> Walks] :
          /\ r[0] = [parts |-> <<>>, part |-> <<>>]
          /\ \A k \in 1..Len(item) : r[k] = Split(r[k - 1], item[k])
          /\ Parts(item) = Joined(r[Len(item)].parts, r[Len(item)].part)
  BY <1>1, PartsSteps
<1>2. /\ r[0] = [parts |-> <<>>, part |-> <<>>]
      /\ r[1] = Split(r[0], ".")
      /\ Parts(item) = Joined(r[1].parts, r[1].part)
  BY <1>1, <1>4
<1>3. r[1].parts = <<>> /\ r[1].part = <<".">>
  BY <1>2 DEF Split
<1> QED BY <1>2, <1>3 DEF Joined, item

LEMMA ConcatSet ==
    ASSUME NEW X, NEW s \in Seq(X), NEW t \in Seq(X)
    PROVE  /\ s \o t \in Seq(X)
           /\ ToSet(s \o t) = ToSet(s) \cup ToSet(t)
<1>1. /\ s \o t \in Seq(X)
      /\ Len(s \o t) = Len(s) + Len(t)
      /\ \A i \in 1..Len(s) + Len(t) :
             (s \o t)[i] = IF i <= Len(s) THEN s[i] ELSE t[i - Len(s)]
  BY ConcatProperties
<1>2. /\ Len(s) \in Nat /\ Len(t) \in Nat
      /\ DOMAIN s = 1..Len(s) /\ DOMAIN t = 1..Len(t)
      /\ DOMAIN (s \o t) = 1..Len(s) + Len(t)
  BY <1>1, LenProperties
<1>3. ASSUME NEW x \in ToSet(s \o t) PROVE x \in ToSet(s) \cup ToSet(t)
  <2>1. PICK i \in 1..Len(s) + Len(t) : x = (s \o t)[i]
    BY <1>2 DEF ToSet
  <2>2. CASE i <= Len(s)
    BY <1>1, <1>2, <2>1, <2>2 DEF ToSet
  <2>3. CASE i > Len(s)
    <3>1. i - Len(s) \in 1..Len(t) /\ x = t[i - Len(s)]
      BY <1>1, <1>2, <2>1, <2>3
    <3> QED BY <1>2, <3>1 DEF ToSet
  <2> QED BY <1>2, <2>2, <2>3
<1>4. ASSUME NEW x \in ToSet(s) PROVE x \in ToSet(s \o t)
  <2>1. PICK i \in 1..Len(s) : x = s[i]
    BY <1>2 DEF ToSet
  <2>2. i \in 1..Len(s) + Len(t) /\ (s \o t)[i] = x
    BY <1>1, <1>2, <2>1
  <2> QED BY <1>2, <2>2 DEF ToSet
<1>5. ASSUME NEW x \in ToSet(t) PROVE x \in ToSet(s \o t)
  <2>1. PICK i \in 1..Len(t) : x = t[i]
    BY <1>2 DEF ToSet
  <2>2. Len(s) + i \in 1..Len(s) + Len(t) /\ (s \o t)[Len(s) + i] = x
    BY <1>1, <1>2, <2>1
  <2> QED BY <1>2, <2>2 DEF ToSet
<1> QED BY <1>1, <1>3, <1>4, <1>5

LEMMA ConcatInjective ==
    ASSUME NEW X, NEW s \in Seq(X), NEW t \in Seq(X),
           IsInjective(s), IsInjective(t), ToSet(s) \cap ToSet(t) = {}
    PROVE  IsInjective(s \o t)
<1>1. /\ s \o t \in Seq(X)
      /\ Len(s \o t) = Len(s) + Len(t)
      /\ \A i \in 1..Len(s) + Len(t) :
             (s \o t)[i] = IF i <= Len(s) THEN s[i] ELSE t[i - Len(s)]
  BY ConcatProperties
<1>2. /\ Len(s) \in Nat /\ Len(t) \in Nat
      /\ DOMAIN s = 1..Len(s) /\ DOMAIN t = 1..Len(t)
      /\ DOMAIN (s \o t) = 1..Len(s) + Len(t)
  BY <1>1, LenProperties
<1> SUFFICES ASSUME NEW i \in 1..Len(s) + Len(t), NEW j \in 1..Len(s) + Len(t),
                    (s \o t)[i] = (s \o t)[j]
             PROVE  i = j
  BY <1>2 DEF IsInjective
<1>3. \A k \in 1..Len(s) + Len(t) :
          IF k <= Len(s) THEN (s \o t)[k] \in ToSet(s)
          ELSE k - Len(s) \in 1..Len(t) /\ (s \o t)[k] \in ToSet(t)
  <2> SUFFICES ASSUME NEW k \in 1..Len(s) + Len(t)
               PROVE  IF k <= Len(s) THEN (s \o t)[k] \in ToSet(s)
                      ELSE k - Len(s) \in 1..Len(t) /\ (s \o t)[k] \in ToSet(t)
    OBVIOUS
  <2>1. CASE k <= Len(s)
    <3>1. k \in 1..Len(s) /\ (s \o t)[k] = s[k]
      BY <1>1, <1>2, <2>1
    <3> QED BY <1>2, <2>1, <3>1 DEF ToSet
  <2>2. CASE ~(k <= Len(s))
    <3>1. k - Len(s) \in 1..Len(t) /\ (s \o t)[k] = t[k - Len(s)]
      BY <1>1, <1>2, <2>2
    <3> QED BY <1>2, <2>2, <3>1 DEF ToSet
  <2> QED BY <2>1, <2>2
<1>4. CASE i <= Len(s) /\ j <= Len(s)
  BY <1>1, <1>2, <1>4 DEF IsInjective
<1>5. CASE ~(i <= Len(s)) /\ ~(j <= Len(s))
  <2>1. t[i - Len(s)] = t[j - Len(s)]
    BY <1>1, <1>5
  <2>2. i - Len(s) = j - Len(s)
    BY <1>2, <1>3, <1>5, <2>1 DEF IsInjective
  <2> QED BY <1>2, <2>2
<1>6. (i <= Len(s)) <=> (j <= Len(s))
  BY <1>3
<1> QED BY <1>4, <1>5, <1>6

\* What is left of a list: its items but the others, none of them twice that
\* was not so before.
LEMMA WithoutIs ==
    ASSUME NEW X, NEW items \in Seq(X), NEW others
    PROVE  /\ Without(items, others) \in Seq(X)
           /\ ToSet(Without(items, others)) = ToSet(items) \ ToSet(others)
           /\ IsInjective(items) => IsInjective(Without(items, others))
<1> DEFINE n == Len(items)
           First(k) == {items[j] : j \in 1..k}
           Is(s, k) == /\ s \in Seq(X)
                       /\ ToSet(s) = First(k) \ ToSet(others)
                       /\ IsInjective(items) => IsInjective(s)
<1>1. n \in Nat /\ DOMAIN items = 1..n /\ \A k \in 1..n : items[k] \in X
  OBVIOUS
<1>2. PICK r : /\ r[0] = <<>>
               /\ \A k \in 1..n : r[k] = IF items[k] \in ToSet(others) THEN r[k - 1]
                                         ELSE Append(r[k - 1], items[k])
               /\ Without(items, others) = r[n]
  BY WithoutSteps
<1> DEFINE Good == {k \in 0..n : Is(r[k], k)}
<1>3. 0 \in Good
  <2>1. First(0) = {} /\ <<>> \in Seq(X) /\ DOMAIN <<>> = {}
    OBVIOUS
  <2>2. ToSet(<<>>) = {} /\ IsInjective(<<>>)
    BY <2>1 DEF ToSet, IsInjective
  <2>3. Is(<<>>, 0)
    <3> HIDE DEF First
    <3> QED BY <2>1, <2>2
  <2> HIDE DEF Is
  <2> QED BY <1>1, <1>2, <2>3
<1>4. ASSUME NEW k \in 1..n, k - 1 \in Good PROVE k \in Good
  <2> DEFINE s == r[k - 1]
             x == items[k]
  <2>1. Is(s, k - 1) /\ x \in X
    BY <1>1, <1>4
  <2>2. First(k) = First(k - 1) \cup {x}
    <3>1. 1..k = (1..k - 1) \cup {k}
      BY <1>1
    <3> QED BY <3>1
  <2>3. CASE x \in ToSet(others)
    <3>1. r[k] = s /\ First(k) \ ToSet(others) = First(k - 1) \ ToSet(others)
      BY <1>2, <2>2, <2>3
    <3> QED BY <1>1, <2>1, <3>1
  <2>4. CASE x \notin ToSet(others)
    <3> DEFINE l == Len(s)
    <3>1. r[k] = Append(s, x)
      BY <1>2, <2>4
    <3>2. /\ l \in Nat /\ DOMAIN s = 1..l
          /\ Append(s, x) \in Seq(X) /\ DOMAIN Append(s, x) = 1..l + 1
          /\ \A j \in 1..l : Append(s, x)[j] = s[j]
          /\ Append(s, x)[l + 1] = x
      BY <2>1
    <3>3. 1..l + 1 = (1..l) \cup {l + 1}
      BY <3>2
    <3> HIDE DEF s, x, l
    <3>4. ToSet(Append(s, x)) = ToSet(s) \cup {x}
      BY <3>2, <3>3 DEF ToSet
    <3>5. ToSet(Append(s, x)) = First(k) \ ToSet(others)
      <4> HIDE DEF First
      <4> QED BY <2>1, <2>2, <2>4, <3>4
    <3>6. ASSUME IsInjective(items) PROVE IsInjective(Append(s, x))
      <4>1. IsInjective(s)
        BY <2>1, <3>6
      <4>2. x \notin First(k - 1)
        BY <1>1, <3>6 DEF IsInjective, x
      <4>3. \A j \in 1..l : s[j] # x
        <5>1. \A j \in 1..l : s[j] \in First(k - 1)
          BY <2>1, <3>2 DEF ToSet
        <5> QED BY <4>2, <5>1
      <4> QED BY <3>2, <3>3, <4>1, <4>3 DEF IsInjective
    <3>7. Is(Append(s, x), k)
      <4> HIDE DEF First
      <4> QED BY <3>2, <3>5, <3>6
    <3>8. k \in 0..n
      BY <1>1
    <3> HIDE DEF Is, n
    <3> QED BY <3>1, <3>7, <3>8
  <2> QED BY <2>3, <2>4
<1>5. n \in Good
  <2>1. \A k \in 1..n : k - 1 \in Good => k \in Good
    BY <1>4
  <2> HIDE DEF Good, n
  <2> QED BY <1>1, <2>1, <1>3, <1>4, Reaches
<1>6. First(n) = ToSet(items)
  BY <1>1 DEF ToSet
<1> QED BY <1>2, <1>5, <1>6

\* Which arguments among the first k are not empty.
Given(args, k) == {j \in 1..k : args[j].kind # ""}

\* The last one that is not empty gives the character; it gives the items too,
\* if it has any or is the only one.
LEMMA ValueIs ==
    ASSUME NEW args \in Seq(Argument)
    PROVE  LET given == Given(args, Len(args))
               last == args[Max(given)]
           IN  /\ given = {} => Value(args) = [kind |-> "+", items |-> <<>>]
               /\ given # {} =>
                      /\ Value(args).kind = last.kind
                      /\ last.items # <<>> \/ given = {Max(given)} =>
                             Value(args).items = last.items
               /\ \/ Value(args).items = <<>>
                  \/ \E j \in 1..Len(args) : Value(args).items = args[j].items
<1> DEFINE n == Len(args)
           Last0(k) == args[Max(Given(args, k))]
           Is(v, k) ==
               /\ Given(args, k) = {} => v = [kind |-> "+", items |-> <<>>]
               /\ Given(args, k) # {} =>
                      /\ v.kind = Last0(k).kind
                      /\ Last0(k).items # <<>> \/ Given(args, k) = {Max(Given(args, k))} =>
                             v.items = Last0(k).items
               /\ v.items = <<>> \/ \E j \in 1..k : v.items = args[j].items
<1>1. n \in Nat /\ DOMAIN args = 1..n /\ \A k \in 1..n : args[k] \in Argument
  OBVIOUS
<1>2. PICK r : /\ r[0] = [kind |-> "+", items |-> <<>>]
               /\ \A k \in 1..n : r[k] = Set(r[k - 1], args[k])
               /\ Value(args) = r[n]
  BY ValueSteps
<1> DEFINE Good == {k \in 0..n : Is(r[k], k)}
<1>3. 0 \in Good
  <2>1. Given(args, 0) = {}
    BY DEF Given
  <2>2. r[0].items = <<>>
    BY <1>2
  <2> QED BY <1>1, <1>2, <2>1, <2>2
<1>4. ASSUME NEW k \in 1..n, k - 1 \in Good PROVE k \in Good
  <2> DEFINE v == r[k - 1]
             arg == args[k]
             G == Given(args, k - 1)
  <2>1. Is(v, k - 1) /\ r[k] = Set(v, arg) /\ arg \in Argument
    BY <1>1, <1>2, <1>4
  <2>2. CASE arg.kind = ""
    <3>1. r[k] = v
      BY <2>1, <2>2 DEF Set
    <3>2. Given(args, k) = G
      <4>1. 1..k = (1..k - 1) \cup {k}
        BY <1>1
      <4> QED BY <2>2, <4>1 DEF Given
    <3>3. \A j \in 1..k - 1 : j \in 1..k
      BY <1>1
    <3>4. Is(v, k)
      <4> HIDE DEF v
      <4> QED BY <2>1, <3>2, <3>3
    <3>5. k \in 0..n
      BY <1>1
    <3> HIDE DEF Is, n
    <3> QED BY <3>1, <3>4, <3>5
  <2>3. CASE arg.kind # ""
    <3>1. /\ r[k].kind = arg.kind
          /\ r[k].items = IF arg.items = <<>> THEN v.items ELSE arg.items
      <4>1. r[k] = [kind |-> arg.kind,
                    items |-> IF arg.items = <<>> THEN v.items ELSE arg.items]
        <5> HIDE DEF v, arg, Is
        <5> QED BY <2>1, <2>3 DEF Set
      <4> QED BY <4>1
    <3>0. 1..k = (1..k - 1) \cup {k} /\ k \notin 1..k - 1 /\ k \in Nat
          /\ 1..k \subseteq 0..k
      BY <1>1
    <3>2. Given(args, k) = G \cup {k} /\ k \notin G /\ Given(args, k) \in SUBSET (0..k)
      BY <2>3, <3>0 DEF Given
    <3>3. Max(Given(args, k)) = k
      <4> DEFINE S == Given(args, k)
      <4>1. S \in SUBSET (0..k) /\ S # {} /\ k \in S
        BY <3>2
      <4> HIDE DEF S
      <4>2. Max(S) \in S /\ Max(S) >= k
        BY <3>0, <4>1, MaxIs
      <4>3. Max(S) \in 0..k
        BY <4>1, <4>2
      <4>4. Max(S) = k
        BY <3>0, <4>2, <4>3
      <4> QED BY <4>4 DEF S
    <3>4. Given(args, k) = {k} => v.items = <<>>
      <4>1. Given(args, k) = {k} => G = {}
        BY <3>2
      <4> HIDE DEF v
      <4> QED BY <2>1, <4>1
    <3>5. Last0(k) = arg
      BY <3>3
    <3>6. arg.items # <<>> \/ Given(args, k) = {k} => r[k].items = arg.items
      BY <3>1, <3>4
    <3>7. r[k].items = <<>> \/ \E j \in 1..k : r[k].items = args[j].items
      <4>1. CASE arg.items = <<>>
        <5>1. r[k].items = v.items
          BY <3>1, <4>1
        <5>2. \A j \in 1..k - 1 : j \in 1..k
          BY <1>1
        <5> HIDE DEF v
        <5> QED BY <2>1, <5>1, <5>2
      <4>2. CASE arg.items # <<>>
        <5>1. r[k].items = args[k].items /\ k \in 1..k
          BY <1>1, <3>1, <4>2
        <5> QED BY <5>1
      <4> QED BY <4>1, <4>2
    <3>8. Given(args, k) # {}
      BY <3>2
    <3>9. Is(r[k], k)
      <4> HIDE DEF arg
      <4> QED BY <3>1, <3>3, <3>5, <3>6, <3>7, <3>8
    <3>10. k \in 0..n
      BY <1>1
    <3> HIDE DEF Is, n
    <3> QED BY <3>9, <3>10
  <2> QED BY <2>2, <2>3
<1>5. n \in Good
  <2>1. \A k \in 1..n : k - 1 \in Good => k \in Good
    BY <1>4
  <2> HIDE DEF Good, n
  <2> QED BY <1>1, <2>1, <1>3, Reaches
<1>6. Is(Value(args), n)
  <2> HIDE DEF Is, n
  <2> QED BY <1>2, <1>5
<1> QED BY <1>6

\* What the two patterns of UpdateConfig accept.
LEMMA NoDotsIs ==
    ASSUME NEW item \in Item, NoDots(item)
    PROVE  /\ item # <<>>
           /\ \A k \in 1..Len(item) - 1 : <<item[k], item[k + 1]>> # <<".", ".">>
<1> DEFINE n == Len(item)
           Dot(k) == item[k] = "."
           Eq(f) == f = [k \in 1..n + 1 |->
                            \/ k > n
                            \/ k < n /\ ~Dot(k) /\ ~Dot(k + 1) /\ f[k + 2]
                            \/ ~Dot(k) /\ f[k + 1]
                            \/ k < n /\ Dot(k) /\ ~Dot(k + 1) /\ f[k + 2]
                            \/ k = n /\ Dot(k)]
           Free(k) == \A j \in k..n - 1 : ~(Dot(j) /\ Dot(j + 1))
           free == [k \in 1..n + 1 |-> Free(k)]
           g == CHOOSE f : Eq(f)
<1>1. n \in Nat
  BY DEF Item
<1>2. ASSUME NEW k \in 1..n + 1
      PROVE  Free(k) <=> \/ k > n
                         \/ k < n /\ ~Dot(k) /\ ~Dot(k + 1) /\ Free(k + 2)
                         \/ k <= n /\ ~Dot(k) /\ Free(k + 1)
                         \/ k < n /\ Dot(k) /\ ~Dot(k + 1) /\ Free(k + 2)
                         \/ k = n /\ Dot(k)
  <2>1. CASE k >= n
    BY <1>1, <2>1
  <2>2. CASE k < n
    <3>1. Free(k) <=> ~(Dot(k) /\ Dot(k + 1)) /\ Free(k + 1)
      BY <1>1, <2>2
    <3>2. k + 1 < n => (Free(k + 1) <=> ~(Dot(k + 1) /\ Dot(k + 2)) /\ Free(k + 2))
      BY <1>1, <2>2
    <3>3. ~(k + 1 < n) => Free(k + 1) /\ Free(k + 2)
      BY <1>1, <2>2
    <3> HIDE DEF Free, Dot
    <3> QED BY <1>1, <2>2, <3>1, <3>2, <3>3
  <2> QED BY <1>1, <2>1, <2>2
<1>3. Eq(free)
  <2>1. ASSUME NEW k \in 1..n + 1
        PROVE  free[k] = (\/ k > n
                          \/ k < n /\ ~Dot(k) /\ ~Dot(k + 1) /\ free[k + 2]
                          \/ ~Dot(k) /\ free[k + 1]
                          \/ k < n /\ Dot(k) /\ ~Dot(k + 1) /\ free[k + 2]
                          \/ k = n /\ Dot(k))
    <3>1. free[k] = Free(k) /\ (k > n => Free(k))
      BY <1>1
    <3>2. k <= n => free[k + 1] = Free(k + 1)
      <4>1. k <= n => k + 1 \in 1..n + 1
        BY <1>1
      <4> HIDE DEF Free
      <4> QED BY <4>1
    <3>3. k < n => free[k + 2] = Free(k + 2)
      <4>1. k < n => k + 2 \in 1..n + 1
        BY <1>1
      <4> HIDE DEF Free
      <4> QED BY <4>1
    <3>4. Free(k) \in BOOLEAN
      OBVIOUS
    <3> HIDE DEF Free, Dot, free
    <3>5. CASE k > n
      BY <3>1, <3>4, <3>5
    <3>6. CASE k <= n
      <4>1. free[k] <=> \/ k > n
                        \/ k < n /\ ~Dot(k) /\ ~Dot(k + 1) /\ free[k + 2]
                        \/ ~Dot(k) /\ free[k + 1]
                        \/ k < n /\ Dot(k) /\ ~Dot(k + 1) /\ free[k + 2]
                        \/ k = n /\ Dot(k)
        BY <1>1, <1>2, <3>1, <3>2, <3>3, <3>6
      <4>2. free[k] \in BOOLEAN
        BY <3>1, <3>4
      <4> QED BY <4>1, <4>2
    <3>7. k > n \/ k <= n
      BY <1>1
    <3> HIDE DEF n
    <3> QED BY Zenon, <3>5, <3>6, <3>7
  <2> HIDE DEF Free, Dot
  <2> QED BY <2>1
<1>4. Eq(g)
  <2> HIDE DEF Eq, free
  <2> QED BY <1>3
<1>5. g[1]
  BY DEF NoDots
<1> HIDE DEF g
<1> DEFINE Bad == {k \in 1..n + 1 : g[k] /\ ~Free(k)}
<1>6. CASE Bad # {}
  <2>1. Bad \in SUBSET (0..n + 1) /\ n + 1 \in Nat
    BY <1>1
  <2>2. PICK k \in Bad : \A m \in Bad : k >= m
    BY <1>6, <2>1, Largest
  <2>3. k \in 1..n + 1 /\ g[k] /\ ~Free(k)
    OBVIOUS
  <2>4. k <= n
    BY <1>1, <2>3
  <2>5. /\ g[k + 1] => Free(k + 1)
        /\ k < n /\ g[k + 2] => Free(k + 2)
    <3>1. k + 1 \in 1..n + 1 /\ k + 1 \notin Bad
      BY <1>1, <2>2, <2>4
    <3>2. k < n => k + 2 \in 1..n + 1 /\ k + 2 \notin Bad
      BY <1>1, <2>2, <2>4
    <3> HIDE DEF Free
    <3> QED BY <3>1, <3>2
  <2>6. \/ k < n /\ ~Dot(k) /\ ~Dot(k + 1) /\ g[k + 2]
        \/ ~Dot(k) /\ g[k + 1]
        \/ k < n /\ Dot(k) /\ ~Dot(k + 1) /\ g[k + 2]
        \/ k = n /\ Dot(k)
    <3> HIDE DEF Free, Bad
    <3> QED BY <1>1, <1>4, <2>3, <2>4
  <2> HIDE DEF Free, Dot, Bad
  <2> QED BY <1>1, <1>2, <2>3, <2>4, <2>5, <2>6
<1>7. CASE Bad = {}
  <2>1. Free(1)
    BY <1>1, <1>5, <1>7
  <2> QED BY <2>1 DEF NoDots
<1> QED BY <1>6, <1>7

Kinds == {"+", "-", ":"}

LEMMA ApplySets ==
    ASSUME NEW X, NEW before \in Seq(X), NEW items \in Seq(X), NEW kind \in Kinds,
           NEW value, value.kind = kind, value.items = items
    PROVE  /\ Apply(value, before) \in Seq(X)
           /\ ToSet(Apply(value, before)) =
                  CASE kind = "+" -> ToSet(before) \cup ToSet(items)
                    [] kind = "-" -> ToSet(before) \ ToSet(items)
                    [] kind = ":" -> ToSet(items)
           /\ IsInjective(before) /\ IsInjective(items) =>
                  IsInjective(Apply(value, before))
<1> DEFINE after == Apply(value, before)
<1>1. CASE kind = "+"
  <2> DEFINE new == Without(items, before)
  <2>1. /\ new \in Seq(X)
        /\ ToSet(new) = ToSet(items) \ ToSet(before)
        /\ IsInjective(items) => IsInjective(new)
    BY WithoutIs
  <2>2. after = before \o new
    BY <1>1 DEF Apply
  <2> HIDE DEF new, after
  <2>3. after \in Seq(X) /\ ToSet(after) = ToSet(before) \cup ToSet(new)
    BY <2>1, <2>2, ConcatSet
  <2>4. ToSet(before) \cap ToSet(new) = {}
    BY <2>1
  <2>5. ASSUME IsInjective(before), IsInjective(items) PROVE IsInjective(after)
    BY <2>1, <2>2, <2>4, <2>5, ConcatInjective
  <2>6. ToSet(after) = ToSet(before) \cup ToSet(items)
    BY <2>1, <2>3
  <2> QED BY <1>1, <2>3, <2>5, <2>6 DEF after
<1>2. CASE kind = "-"
  <2>1. after = Without(before, items)
    BY <1>2 DEF Apply
  <2>2. /\ after \in Seq(X)
        /\ ToSet(after) = ToSet(before) \ ToSet(items)
        /\ IsInjective(before) => IsInjective(after)
    BY <2>1, WithoutIs
  <2> HIDE DEF after
  <2> QED BY <1>2, <2>2 DEF after
<1>3. CASE kind = ":"
  <2>1. after = items
    BY <1>3 DEF Apply
  <2> HIDE DEF after
  <2> QED BY <1>3, <2>1 DEF after
<1> QED BY <1>1, <1>2, <1>3 DEF Kinds

LEMMA SmallerSeq ==
    ASSUME NEW X, NEW Y, NEW s \in Seq(X), ToSet(s) \subseteq Y
    PROVE  s \in Seq(Y)
<1>1. s \in [1..Len(s) -> X] /\ Len(s) \in Nat /\ DOMAIN s = 1..Len(s)
  BY LenProperties
<1>2. \A k \in 1..Len(s) : s[k] \in Y
  BY <1>1 DEF ToSet
<1>3. s \in [1..Len(s) -> Y]
  BY <1>1, <1>2
<1> QED BY <1>1, <1>3

\* What a command makes of a list, as the guide has it.
LEMMA ApplyIs ==
    ASSUME NEW args \in Commands, \A k \in DOMAIN args : ~Invalid(args[k]),
           NEW before \in Seq(Items)
    PROVE  LET after == Apply(Value(args), before)
           IN  /\ after \in Seq(Items)
               /\ ToSet(after) = Asked(args, ToSet(before), ToSet(after))
               /\ IsInjective(before) /\ ~Doubles(args) => IsInjective(after)
<1> DEFINE v == Value(args)
           n == Len(args)
           after == Apply(v, before)
           given == Given(args, n)
           last == args[Max(given)]
<1>1. /\ args \in Seq(Argument) /\ n \in Nat /\ DOMAIN args = 1..n
      /\ \A k \in 1..n : args[k] \in Argument
  BY PrivateDirsAssumption
<1>2. /\ given = {} => v = [kind |-> "+", items |-> <<>>]
      /\ given # {} =>
             /\ v.kind = last.kind
             /\ last.items # <<>> \/ given = {Max(given)} => v.items = last.items
      /\ v.items = <<>> \/ \E j \in 1..n : v.items = args[j].items
  BY <1>1, ValueIs
<1>3. ASSUME NEW j \in 1..n
      PROVE  args[j].items \in Seq(Items) /\ args[j].kind \in Kinds \cup {""}
  <2>1. args[j].items \in Seq(Item) /\ args[j].kind \in {"", "+", "-", ":", "?"}
    BY <1>1 DEF Argument
  <2>2. args[j] \in UNION {ToSet(a) : a \in Commands}
    <3>1. args[j] \in ToSet(args)
      BY <1>1 DEF ToSet
    <3> QED BY <3>1
  <2>3. ToSet(args[j].items) \subseteq Items
    BY <2>2 DEF Items
  <2>4. args[j].kind # "?"
    BY <1>1 DEF Invalid
  <2> QED BY <2>1, <2>3, <2>4, SmallerSeq DEF Kinds
<1>4. /\ <<>> \in Seq(Items) /\ DOMAIN <<>> = {}
      /\ ToSet(<<>>) = {} /\ IsInjective(<<>>)
  <2>1. DOMAIN <<>> = {}
    OBVIOUS
  <2> QED BY <2>1 DEF ToSet, IsInjective
<1>5. v.items \in Seq(Items)
  BY <1>2, <1>3, <1>4
<1>6. given # {} => Max(given) \in 1..n /\ last.kind # ""
  <2>1. given \in SUBSET (0..n)
    <3>1. given \subseteq 1..n
      BY DEF Given
    <3>2. 1..n \subseteq 0..n
      BY <1>1
    <3> QED BY <3>1, <3>2
  <2>2. given # {} => Max(given) \in given
    <3> HIDE DEF given, n
    <3> QED BY <1>1, <2>1, MaxIs
  <2> QED BY <2>2 DEF Given
<1>7. v.kind \in Kinds
  <2>1. CASE given = {}
    BY <1>2, <2>1 DEF Kinds
  <2>2. CASE given # {}
    <3>1. last.kind \in Kinds \cup {""}
      BY <1>3, <1>6, <2>2
    <3> QED BY <1>2, <1>6, <2>2, <3>1
  <2> QED BY <2>1, <2>2
<1>8. /\ after \in Seq(Items)
      /\ ToSet(after) = CASE v.kind = "+" -> ToSet(before) \cup ToSet(v.items)
                          [] v.kind = "-" -> ToSet(before) \ ToSet(v.items)
                          [] v.kind = ":" -> ToSet(v.items)
      /\ IsInjective(before) /\ IsInjective(v.items) => IsInjective(after)
  <2> HIDE DEF v
  <2> QED BY <1>5, <1>7, ApplySets
<1>9. ~Doubles(args) => IsInjective(v.items)
  BY <1>1, <1>2, <1>4 DEF Doubles
<1>10. Asked(args, ToSet(before), ToSet(after)) =
           IF given = {} THEN ToSet(before)
           ELSE IF given # {Max(given)} /\ ToSet(last.items) = {} THEN ToSet(after)
           ELSE CASE last.kind = "+" -> ToSet(before) \cup ToSet(last.items)
                  [] last.kind = "-" -> ToSet(before) \ ToSet(last.items)
                  [] last.kind = ":" -> ToSet(last.items)
  BY <1>1 DEF Asked, Given
<1>11. ToSet(after) = Asked(args, ToSet(before), ToSet(after))
  <2>1. CASE given = {}
    <3>1. ToSet(after) = ToSet(before) \cup {}
      <4>1. v.kind = "+" /\ ToSet(v.items) = {}
        BY <1>2, <1>4, <2>1
      <4> HIDE DEF v, after
      <4> QED BY <1>8, <4>1
    <3> HIDE DEF given, after, last
    <3> QED BY <1>10, <2>1, <3>1
  <2>2. CASE given # {} /\ given # {Max(given)} /\ ToSet(last.items) = {}
    <3> HIDE DEF given, after, last
    <3> QED BY <1>10, <2>2
  <2>3. CASE given # {} /\ ~(given # {Max(given)} /\ ToSet(last.items) = {})
    <3>1. v.kind = last.kind /\ v.items = last.items
      <4> HIDE DEF given, v, last
      <4> QED BY <1>2, <1>4, <2>3
    <3> HIDE DEF given, after, last, v
    <3> QED BY <1>8, <1>10, <2>3, <3>1
  <2> HIDE DEF given, after, last
  <2> QED BY <2>1, <2>2, <2>3
<1> HIDE DEF after, v
<1> QED BY <1>8, <1>9, <1>11 DEF after, v

LEMMA ItemsAre == Items \subseteq Item
<1> SUFFICES ASSUME NEW item \in Items PROVE item \in Item
  OBVIOUS
<1>1. PICK args \in Commands : \E arg \in ToSet(args) : item \in ToSet(arg.items)
  BY DEF Items
<1>2. args \in Seq(Argument)
  BY PrivateDirsAssumption
<1>5. PICK arg \in ToSet(args) : item \in ToSet(arg.items)
  BY <1>1
<1>3. arg \in Argument
  BY <1>2 DEF ToSet
<1>4. arg.items \in Seq(Item)
  BY <1>3 DEF Argument
<1> QED BY <1>4, <1>5 DEF ToSet

Path == Seq(Seq(Chars))

LEMMA AboveAre ==
    ASSUME NEW item \in Items, NEW k \in 0..Len(Parts(item))
    PROVE  /\ Len(Parts(item)) \in Nat
           /\ SubSeq(Parts(item), 1, k) \in Dirs
<1>1. Parts(item) \in Seq(Seq(Chars))
  BY ItemsAre, PartsTyped
<1>2. SubSeq(Parts(item), 1, k) \in Above(Parts(item))
  BY DEF Above
<1> QED BY <1>1, <1>2 DEF Dirs

LEMMA DirsTyped == Dirs \subseteq Path
<1> SUFFICES ASSUME NEW dir \in Dirs PROVE dir \in Path
  OBVIOUS
<1>1. CASE dir = <<>>
  BY <1>1 DEF Path
<1>2. CASE dir # <<>>
  <2>1. PICK item \in Items : dir \in Above(Parts(item))
    BY <1>2 DEF Dirs
  <2>2. Parts(item) \in Seq(Seq(Chars))
    BY ItemsAre, PartsTyped
  <2>3. PICK k \in 0..Len(Parts(item)) : dir = SubSeq(Parts(item), 1, k)
    BY <2>1 DEF Above
  <2>4. \A i \in 1..k : Parts(item)[i] \in Seq(Chars)
    BY <2>2
  <2>5. 1 \in Int /\ k \in Int
    BY <2>2
  <2> QED BY <2>3, <2>4, <2>5, SubSeqProperties DEF Path
<1> QED BY <1>1, <1>2

HomeBind == [at |-> <<>>, from |-> Host(<<>>)]
ItemBind(item) == [at |-> Parts(item), from |-> Private(Parts(item))]

LEMMA BindsAre ==
    ASSUME NEW items \in Seq(Items)
    PROVE  ToSet(Binds(items)) =
               (IF <<".">> \in ToSet(items) THEN {} ELSE {HomeBind})
                   \cup {ItemBind(item) : item \in ToSet(items)}
<1> DEFINE X == {HomeBind} \cup {ItemBind(item) : item \in Items}
           home == IF <<".">> \in ToSet(items) THEN <<>> ELSE <<HomeBind>>
           own == [k \in DOMAIN items |-> ItemBind(items[k])]
<1>1. Len(items) \in Nat /\ DOMAIN items = 1..Len(items)
      /\ \A k \in 1..Len(items) : items[k] \in Items
  OBVIOUS
<1>2. home \in Seq(X)
  <2>1. HomeBind \in X /\ <<>> \in Seq(X)
    OBVIOUS
  <2> HIDE DEF X
  <2> QED BY <2>1
<1>3. own \in Seq(X)
  <2>1. own \in [1..Len(items) -> X]
    BY <1>1
  <2> HIDE DEF own, X
  <2> QED BY <1>1, <2>1
<1>4. Binds(items) = home \o own
  BY DEF Binds, HomeBind, ItemBind
<1>5. ToSet(Binds(items)) = ToSet(home) \cup ToSet(own)
  <2> HIDE DEF home, own, X
  <2> QED BY <1>2, <1>3, <1>4, ConcatSet
<1>6. ToSet(own) = {ItemBind(item) : item \in ToSet(items)}
  BY DEF ToSet
<1>7. ToSet(home) = IF <<".">> \in ToSet(items) THEN {} ELSE {HomeBind}
  <2>1. DOMAIN <<>> = {} /\ DOMAIN <<HomeBind>> = {1} /\ <<HomeBind>>[1] = HomeBind
    OBVIOUS
  <2>2. ToSet(<<>>) = {} /\ ToSet(<<HomeBind>>) = {HomeBind}
    BY <2>1 DEF ToSet
  <2> QED BY <2>2
<1> QED BY <1>5, <1>6, <1>7

\* A directory is what it lies in and the rest of its path.
LEMMA PrefixIs ==
    ASSUME NEW at \in Path, NEW dir \in Path, IsPrefix(at, dir)
    PROVE  /\ Len(at) \in 0..Len(dir) /\ Len(dir) \in Nat
           /\ at \o SubSeq(dir, Len(at) + 1, Len(dir)) = dir
<1>1. Len(at) \in 0..Len(dir) /\ Len(dir) \in Nat
  BY DEF IsPrefix, Path
<1>2. at = SubSeq(dir, 1, Len(at))
  BY SubSeqFull DEF IsPrefix, Path
<1>3. /\ 1 \in 1..Len(dir) + 1
      /\ Len(at) \in 1 - 1..Len(dir)
      /\ Len(dir) \in Len(at)..Len(dir)
  BY <1>1
<1>4. SubSeq(dir, 1, Len(at)) \o SubSeq(dir, Len(at) + 1, Len(dir))
          = SubSeq(dir, 1, Len(dir))
  BY <1>3, ConcatAdjacentSubSeq DEF Path
<1>5. SubSeq(dir, 1, Len(dir)) = dir
  BY SubSeqFull DEF Path
<1> QED BY <1>1, <1>2, <1>4, <1>5

\* The deepest of what is bound over a directory, and what shows there.
LEMMA ShownIs ==
    ASSUME run.list \in Seq(Items), NEW dir \in Path
    PROVE  LET over == {bind \in ToSet(Binds(run.list)) : IsPrefix(bind.at, dir)}
               deepest == {bind \in over :
                              \A other \in over : Len(other.at) <= Len(bind.at)}
           IN  /\ over # {} => deepest # {}
               /\ Shown(dir) = {<<bind.from[1], dir>> : bind \in deepest}
<1> DEFINE over == {bind \in ToSet(Binds(run.list)) : IsPrefix(bind.at, dir)}
           deepest == {bind \in over :
                          \A other \in over : Len(other.at) <= Len(bind.at)}
<1>1. ASSUME NEW bind \in over
      PROVE  /\ bind.at \in Path
             /\ bind.from[2] = bind.at
             /\ Len(bind.at) \in 0..Len(dir) /\ Len(dir) \in Nat
             /\ bind.at \o SubSeq(dir, Len(bind.at) + 1, Len(dir)) = dir
  <2>1. \/ bind = HomeBind
        \/ \E item \in Items : bind = ItemBind(item)
    <3>1. ToSet(run.list) \subseteq Items
      BY DEF ToSet
    <3> QED BY <3>1, BindsAre
  <2>2. CASE bind = HomeBind
    <3>1. bind.at \in Path /\ bind.from[2] = bind.at
      BY <2>2 DEF HomeBind, Host, Path
    <3> QED BY <3>1, PrefixIs
  <2>3. ASSUME NEW item \in Items, bind = ItemBind(item)
        PROVE  bind.at \in Path /\ bind.from[2] = bind.at
    BY <2>3, ItemsAre, PartsTyped DEF ItemBind, Private, Path
  <2>4. bind.at \in Path /\ bind.from[2] = bind.at
    BY <2>1, <2>2, <2>3 DEF HomeBind, Host, Path
  <2>5. IsPrefix(bind.at, dir)
    OBVIOUS
  <2> HIDE DEF over
  <2> QED BY <2>4, <2>5, PrefixIs
<1>2. ASSUME over # {} PROVE deepest # {}
  <2> DEFINE Lengths == {Len(bind.at) : bind \in over}
  <2>1. Len(dir) \in Nat
    BY DEF Path
  <2> HIDE DEF over
  <2>2. Lengths \in SUBSET (0..Len(dir)) /\ Lengths # {}
    BY <1>1, <1>2
  <2>3. PICK l \in Lengths : \A m \in Lengths : l >= m
    <3> HIDE DEF Lengths
    <3> QED BY <2>1, <2>2, Largest
  <2>4. PICK bind \in over : l = Len(bind.at)
    OBVIOUS
  <2>5. \A other \in over : Len(other.at) <= Len(bind.at)
    <3>1. \A other \in over : Len(other.at) \in Lengths
      OBVIOUS
    <3>2. \A m \in Lengths : m \in Nat
      BY <2>2
    <3> HIDE DEF Lengths
    <3> QED BY <2>3, <2>4, <3>1, <3>2
  <2> QED BY <2>4, <2>5
<1>3. Shown(dir) = {<<bind.from[1], dir>> : bind \in deepest}
  <2>1. Shown(dir) = {<<bind.from[1],
                        bind.from[2] \o SubSeq(dir, Len(bind.at) + 1, Len(dir))>> :
                           bind \in deepest}
    BY DEF Shown
  <2>2. \A bind \in deepest :
            bind.from[2] \o SubSeq(dir, Len(bind.at) + 1, Len(dir)) = dir
    <3>1. \A bind \in deepest : bind \in over
      OBVIOUS
    <3> HIDE DEF over, deepest
    <3> QED BY <1>1, <3>1
  <2> HIDE DEF deepest
  <2> QED BY <2>1, <2>2
<1> HIDE DEF deepest
<1>4. over # {} => deepest # {}
  BY <1>2
<1> QED BY <1>3, <1>4 DEF deepest

\* Either something that is listed is deepest, or nothing is listed over it.
LEMMA ShownRight ==
    ASSUME run.list \in Seq(Items), NEW dir \in Path
    PROVE  LET over == {item \in ToSet(run.list) : IsPrefix(Parts(item), dir)}
               twice == /\ over # {} /\ <<".">> \notin over
                        /\ \A item \in over : Parts(item) = <<>>
           IN  \/ twice
               \/ Shown(dir) = {IF over = {} THEN Host(dir) ELSE Private(dir)}
<1> DEFINE items == {item \in ToSet(run.list) : IsPrefix(Parts(item), dir)}
           over == {bind \in ToSet(Binds(run.list)) : IsPrefix(bind.at, dir)}
           deepest == {bind \in over :
                          \A other \in over : Len(other.at) <= Len(bind.at)}
           dot == <<".">>
<1>1. ToSet(run.list) \subseteq Items /\ Items \subseteq Item
  BY ItemsAre DEF ToSet
<1>2. ASSUME NEW path \in Path PROVE IsPrefix(<<>>, path)
  <2>1. Len(<<>>) = 0 /\ Len(path) \in Nat
    BY DEF Path
  <2>2. SubSeq(<<>>, 1, 0) = <<>> /\ SubSeq(path, 1, 0) = <<>>
    BY SubSeqEmpty
  <2> QED BY <2>1, <2>2 DEF IsPrefix
<1>3. over = (IF dot \in ToSet(run.list) THEN {} ELSE {HomeBind})
                 \cup {ItemBind(item) : item \in items}
  <2>1. IsPrefix(HomeBind.at, dir)
    BY <1>2 DEF HomeBind
  <2>2. \A item \in ToSet(run.list) :
            IsPrefix(ItemBind(item).at, dir) <=> item \in items
    BY DEF ItemBind
  <2>3. ToSet(Binds(run.list)) = (IF dot \in ToSet(run.list) THEN {} ELSE {HomeBind})
                 \cup {ItemBind(item) : item \in ToSet(run.list)}
    BY BindsAre
  <2>4. items \subseteq ToSet(run.list)
    OBVIOUS
  <2>5. \A bind : bind \in over <=>
            bind \in ToSet(Binds(run.list)) /\ IsPrefix(bind.at, dir)
    OBVIOUS
  <2> HIDE DEF items, dot, over
  <2>6. \A bind \in over : \/ bind = HomeBind /\ dot \notin ToSet(run.list)
                           \/ \E item \in items : bind = ItemBind(item)
    BY <2>2, <2>3, <2>5
  <2>7. \A item \in items : ItemBind(item) \in over
    BY <2>2, <2>3, <2>4, <2>5
  <2>8. dot \notin ToSet(run.list) => HomeBind \in over
    BY <2>1, <2>3, <2>5
  <2> QED BY <2>6, <2>7, <2>8
<1>4. dot \in ToSet(run.list) => dot \in items
  BY <1>1, <1>2, PartsOfHome
<1>5. over # {} /\ deepest # {}
  <2>1. over # {}
    <3> HIDE DEF items, over, dot
    <3> QED BY <1>3, <1>4
  <2>2. over # {} => deepest # {}
    BY ShownIs
  <2> HIDE DEF over, deepest
  <2> QED BY <2>1, <2>2
<1>6. Shown(dir) = {<<bind.from[1], dir>> : bind \in deepest}
  BY ShownIs
<1>7. CASE items = {}
  <2>1. over = {HomeBind} /\ deepest \subseteq over
    <3> HIDE DEF dot, items
    <3> QED BY <1>3, <1>4, <1>7
  <2>2. deepest = {HomeBind}
    <3> HIDE DEF over, deepest
    <3> QED BY <1>5, <2>1
  <2> HIDE DEF deepest
  <2>3. Shown(dir) = {Host(dir)}
    BY <1>6, <2>2 DEF HomeBind, Host
  <2> QED BY <1>7, <2>3
<1>8. CASE items # {} /\ (dot \in items \/ \E item \in items : Parts(item) # <<>>)
  <2>1. ASSUME NEW bind \in deepest PROVE bind.from[1] = "private"
    <3>1. bind \in over /\ \A other \in over : Len(other.at) <= Len(bind.at)
      OBVIOUS
    <3>2. CASE bind = HomeBind
      <4>1. HomeBind # ItemBind(dot)
        BY DEF HomeBind, ItemBind, Host, Private
      <4>2. ASSUME NEW item \in items PROVE HomeBind # ItemBind(item)
        BY DEF HomeBind, ItemBind, Host, Private
      <4>3. dot \notin ToSet(run.list)
        <5> HIDE DEF items, over, dot, deepest
        <5> QED BY <1>3, <3>1, <3>2, <4>2
      <4>4. dot \notin items
        BY <4>3
      <4>5. PICK item \in items : Parts(item) # <<>>
        BY <1>8, <4>4
      <4>6. ItemBind(item) \in over
        <5> HIDE DEF items, over
        <5> QED BY <1>3
      <4>7. Len(Parts(item)) <= Len(<<>>)
        <5>1. Len(ItemBind(item).at) <= Len(HomeBind.at)
          BY <3>1, <3>2, <4>6
        <5> QED BY <5>1 DEF ItemBind, HomeBind
      <4>8. Parts(item) \in Seq(Seq(Chars))
        BY <1>1, PartsTyped
      <4>9. Parts(item) = <<>>
        BY <4>7, <4>8
      <4> QED BY <4>5, <4>9
    <3>3. CASE bind # HomeBind
      <4>1. PICK item \in items : bind = ItemBind(item)
        <5> HIDE DEF items, over, dot, deepest
        <5> QED BY <1>3, <3>1, <3>3
      <4> QED BY <4>1 DEF ItemBind, Private
    <3> QED BY <3>2, <3>3
  <2> HIDE DEF deepest
  <2>2. Shown(dir) = {Private(dir)}
    BY <1>5, <1>6, <2>1 DEF Private
  <2> QED BY <1>8, <2>2
<1>9. CASE items # {} /\ dot \notin items /\ \A item \in items : Parts(item) = <<>>
  BY <1>9
<1> HIDE DEF items, dot
<1>10. \/ items = {}
       \/ items # {} /\ (dot \in items \/ \E item \in items : Parts(item) # <<>>)
       \/ items # {} /\ dot \notin items /\ \A item \in items : Parts(item) = <<>>
  OBVIOUS
<1> QED BY <1>7, <1>8, <1>9, <1>10

-----------------------------------------------------------------------------
AnyName == CHOOSE label \in Names : TRUE
Runs == [pc : {"down", "bind", "chown", "up", "panic"}, name : Names \cup {AnyName},
         id : 0..MaxContainers, list : Seq(Items), item : Nat \ {0}, depth : Nat]

\* Lists hold items of the commands, and have passed UpdateConfig.
ListInv ==
    /\ containers \in [Names -> 0..MaxContainers]
    /\ list \in [Ids -> Seq(Items)]
    /\ asked \in [Ids -> SUBSET Items]
    /\ \A id \in Ids : Valid(list[id])

\* nsboxd is at a directory on the way to an item of the list it has loaded.
RunInv ==
    /\ run \in Runs
    /\ run.pc # "down" => run.name \in Names
    /\ Valid(run.list)
    /\ run.pc \in {"bind", "chown"} /\ run.item <= Len(run.list) =>
           run.depth <= Len(Parts(run.list[run.item]))
    /\ run.pc = "chown" => run.item <= Len(run.list)
    /\ run.pc = "up" => run.item > Len(run.list)

\* A directory is root's only while its start is about to give it away, or was.
OwnerInv ==
    /\ owner \in [Names \X Dirs -> {"none", "root", "user"}]
    /\ \A place \in Names \X Dirs :
           owner[place] = "root" =>
               \/ place \in cut
               \/ run.pc = "chown" /\ place = <<run.name, Dir>>

\* The directories that nsboxd has behind it are there.
MadeInv ==
    run.pc \in {"bind", "chown", "up"} =>
        \A k \in 1..Len(run.list) : \A d \in 0..Len(Parts(run.list[k])) :
            k < run.item \/ (k = run.item /\ d < run.depth) =>
                owner[<<run.name, SubSeq(Parts(run.list[k]), 1, d)>>] # "none"

PrivateInv == ListInv /\ RunInv /\ NsboxdAccepts /\ OwnerInv /\ MadeInv /\ ListAsAsked

LEMMA EmptyList ==
    /\ <<>> \in Seq(Items) /\ Len(<<>>) = 0
    /\ ToSet(<<>>) = {}
    /\ IsInjective(<<>>)
    /\ Valid(<<>>)
<1>1. DOMAIN <<>> = {}
  OBVIOUS
<1>2. ToSet(<<>>) = {}
  BY <1>1 DEF ToSet
<1> QED BY <1>1, <1>2 DEF IsInjective, Valid

LEMMA DownTyped == Down \in Runs /\ Down.pc = "down" /\ Down.list = <<>>
<1>1. MaxContainers \in Nat
  BY PrivateDirsAssumption
<1> QED BY <1>1, EmptyList DEF Down, Runs, AnyName, Nobody

LEMMA PrivateInitInv == PrivateInit => PrivateInv
<1> SUFFICES ASSUME PrivateInit PROVE PrivateInv
  OBVIOUS
<1>1. ListInv
  <2>1. 0 \in 0..MaxContainers
    BY PrivateDirsAssumption
  <2> QED BY <2>1, EmptyList DEF PrivateInit, ListInv, Nobody
<1>2. RunInv /\ NsboxdAccepts
  BY DownTyped, EmptyList DEF PrivateInit, RunInv, NsboxdAccepts
<1>3. OwnerInv
  BY DEF PrivateInit, OwnerInv
<1>4. MadeInv
  BY DownTyped DEF PrivateInit, MadeInv
<1>5. ListAsAsked
  BY EmptyList DEF PrivateInit, ListAsAsked
<1> QED BY <1>1, <1>2, <1>3, <1>4, <1>5 DEF PrivateInv

\* A command: the list it leaves is valid, and what it asked for.
LEMMA ConfigInv0 ==
    ASSUME PrivateInv, NEW label \in Names, NEW args \in Commands, Config(label, args)
    PROVE  ListInv' /\ ListAsAsked'
<1> DEFINE id == containers[label]
           refused == \E k \in DOMAIN args : Invalid(args[k])
           after == IF refused THEN list[id] ELSE Apply(Value(args), list[id])
           fails == refused \/ ~Valid(after)
<1>1. /\ id \in Ids
      /\ list' = IF fails THEN list ELSE [list EXCEPT ![id] = after]
      /\ asked' = IF fails THEN asked
                  ELSE [asked EXCEPT ![id] = Asked(args, asked[id], ToSet(after))]
      /\ doubled' = IF ~fails /\ Doubles(args) THEN doubled \cup {id} ELSE doubled
      /\ UNCHANGED containers
  BY PrivateDirsAssumption DEF PrivateInv, ListInv, Config, Ids, Nobody
<1>2. CASE fails
  <2>1. UNCHANGED <<containers, list, asked, doubled>>
    <3> HIDE DEF fails
    <3> QED BY <1>1, <1>2
  <2> QED BY <2>1 DEF PrivateInv, ListInv, ListAsAsked
<1>3. CASE ~fails
  <2>1. /\ list[id] \in Seq(Items)
        /\ ToSet(list[id]) = asked[id]
        /\ id \in doubled \/ IsInjective(list[id])
    BY <1>1 DEF PrivateInv, ListInv, ListAsAsked
  <2>2. /\ after \in Seq(Items)
        /\ ToSet(after) = Asked(args, ToSet(list[id]), ToSet(after))
        /\ IsInjective(list[id]) /\ ~Doubles(args) => IsInjective(after)
        /\ Valid(after)
    <3>1. /\ ~refused /\ Valid(after)
          /\ after = Apply(Value(args), list[id])
      BY <1>3
    <3>2. \A k \in DOMAIN args : ~Invalid(args[k])
      BY <3>1
    <3> HIDE DEF after, refused, id
    <3> QED BY <2>1, <3>1, <3>2, ApplyIs
  <2> HIDE DEF fails, after, id
  <2>3. /\ list' = [list EXCEPT ![id] = after]
        /\ asked' = [asked EXCEPT ![id] = ToSet(after)]
    BY <1>1, <1>3, <2>1, <2>2
  <2>4. ToSet(after) \subseteq Items
    BY <2>2 DEF ToSet
  <2>5. ListInv'
    BY <1>1, <2>2, <2>3, <2>4 DEF PrivateInv, ListInv
  <2>6. doubled \subseteq doubled' /\ (id \in doubled' \/ IsInjective(after))
    BY <1>1, <1>3, <2>1, <2>2
  <2>7. ASSUME NEW i \in Ids
        PROVE  ToSet(list'[i]) = asked'[i] /\ (i \in doubled' \/ IsInjective(list'[i]))
    <3>1. CASE i = id
      BY <1>1, <2>3, <2>6, <3>1 DEF PrivateInv, ListInv
    <3>2. CASE i # id
      <4>1. list'[i] = list[i] /\ asked'[i] = asked[i]
        BY <2>3, <3>2 DEF PrivateInv, ListInv
      <4> QED BY <2>6, <4>1 DEF PrivateInv, ListAsAsked
    <3> QED BY <3>1, <3>2
  <2> QED BY <2>5, <2>7 DEF ListAsAsked
<1> HIDE DEF fails
<1> QED BY <1>2, <1>3

LEMMA ListNext == PrivateInv /\ [PrivateNext]_privateVars => ListInv' /\ ListAsAsked'
<1> SUFFICES ASSUME PrivateInv, [PrivateNext]_privateVars
             PROVE  ListInv' /\ ListAsAsked'
  OBVIOUS
<1>1. ASSUME NEW label \in Names, NEW args \in Commands, Config(label, args)
      PROVE  ListInv' /\ ListAsAsked'
  BY <1>1, ConfigInv0
<1>2. ASSUME NEW label \in Names, Create(label) PROVE ListInv' /\ ListAsAsked'
  <2>1. UNCHANGED <<list, asked, doubled>>
    BY <1>2 DEF Create, ghosts
  <2>2. containers' \in [Names -> 0..MaxContainers]
    BY <1>2, PrivateDirsAssumption DEF Create, PrivateInv, ListInv, Ids
  <2> QED BY <2>1, <2>2 DEF PrivateInv, ListInv, ListAsAsked
<1>3. ASSUME NEW label \in Names, NEW new \in Names, Rename(label, new)
      PROVE  ListInv' /\ ListAsAsked'
  <2>1. UNCHANGED <<list, asked, doubled>>
    BY <1>3 DEF Rename, ghosts
  <2>2. containers' \in [Names -> 0..MaxContainers]
    BY <1>3, PrivateDirsAssumption DEF Rename, PrivateInv, ListInv, Nobody
  <2> QED BY <2>1, <2>2 DEF PrivateInv, ListInv, ListAsAsked
<1>4. ASSUME NEW label \in Names, Delete(label) PROVE ListInv' /\ ListAsAsked'
  <2> DEFINE id == containers[label]
  <2>1. /\ list' = [list EXCEPT ![id] = <<>>]
        /\ asked' = [asked EXCEPT ![id] = {}]
        /\ doubled' = doubled \ {id}
    BY <1>4 DEF Delete
  <2>2. containers' \in [Names -> 0..MaxContainers]
    BY <1>4, PrivateDirsAssumption DEF Delete, PrivateInv, ListInv, Nobody
  <2> HIDE DEF id
  <2>3. ListInv'
    BY <2>1, <2>2, EmptyList DEF PrivateInv, ListInv
  <2>4. ASSUME NEW i \in Ids
        PROVE  ToSet(list'[i]) = asked'[i] /\ (i \in doubled' \/ IsInjective(list'[i]))
    <3>1. CASE i = id
      <4>1. list'[i] = <<>> /\ asked'[i] = {}
        BY <2>1, <3>1 DEF PrivateInv, ListInv
      <4> QED BY <4>1, EmptyList
    <3>2. CASE i # id
      <4>1. list'[i] = list[i] /\ asked'[i] = asked[i] /\ (i \in doubled => i \in doubled')
        BY <2>1, <3>2 DEF PrivateInv, ListInv
      <4> QED BY <4>1 DEF PrivateInv, ListAsAsked
    <3> QED BY <3>1, <3>2
  <2> QED BY <2>3, <2>4 DEF ListAsAsked
<1>5. CASE \/ \E label \in Names : Begin(label)
           \/ BindPrivate \/ Chown \/ Nspawn \/ StartDies \/ Stop
           \/ \E dir \in Dirs : Write(dir)
           \/ UNCHANGED privateVars
  <2>1. UNCHANGED <<containers, list, asked, doubled>>
    BY <1>5 DEF Begin, BindPrivate, Chown, Nspawn, StartDies, Stop, Write,
        privateVars, ghosts
  <2> QED BY <2>1 DEF PrivateInv, ListInv, ListAsAsked
<1> QED BY <1>1, <1>2, <1>3, <1>4, <1>5 DEF PrivateNext

LEMMA ValidIsSane ==
    ASSUME NEW items \in Seq(Items), Valid(items), NEW k \in 1..Len(items)
    PROVE  Sane(items[k])
<1>1. items[k] \in ToSet(items) /\ items[k] \in Item
  BY ItemsAre DEF ToSet
<1>2. Relative(items[k]) /\ NoDots(items[k])
  BY <1>1 DEF Valid
<1>3. /\ items[k][1] # "/"
      /\ \A j \in 1..Len(items[k]) - 1 :
             <<items[k][j], items[k][j + 1]>> # <<".", ".">>
  BY <1>1, <1>2, NoDotsIs DEF Relative
<1> QED BY <1>3 DEF Sane

\* Where nsboxd is, it is at a directory that has an owner, and goes on below
\* it or with the next item.
LEMMA DirIs ==
    ASSUME RunInv, run.pc \in {"bind", "chown"}, run.item <= Len(run.list)
    PROVE  /\ run.list[run.item] \in Items
           /\ run.item \in 1..Len(run.list)
           /\ run.depth \in 0..Len(Parts(run.list[run.item]))
           /\ Len(Parts(run.list[run.item])) \in Nat
           /\ <<run.name, Dir>> \in Names \X Dirs
<1>1. run.list \in Seq(Items) /\ run.item \in Nat \ {0} /\ run.depth \in Nat
  BY DEF RunInv, Runs
<1>2. run.item \in 1..Len(run.list) /\ run.list[run.item] \in Items
  BY <1>1
<1>3. Len(Parts(run.list[run.item])) \in Nat
  BY <1>2, ItemsAre, PartsTyped
<1>4. run.depth \in 0..Len(Parts(run.list[run.item]))
  BY <1>1, <1>3 DEF RunInv
<1>5. Dir \in Dirs /\ run.name \in Names
  BY <1>2, <1>4, AboveAre DEF Dir, RunInv
<1> QED BY <1>2, <1>3, <1>4, <1>5

LEMMA OnwardIs ==
    ASSUME RunInv, run.pc \in {"bind", "chown"}, run.item <= Len(run.list),
           run' = Onward
    PROVE  /\ run' \in Runs
           /\ run'.pc = "bind" /\ run'.name = run.name /\ run'.list = run.list
           /\ \/ /\ run.depth < Len(Parts(run.list[run.item]))
                 /\ run'.item = run.item /\ run'.depth = run.depth + 1
              \/ /\ run.depth = Len(Parts(run.list[run.item]))
                 /\ run'.item = run.item + 1 /\ run'.depth = 0
<1>1. /\ run.depth \in 0..Len(Parts(run.list[run.item]))
      /\ Len(Parts(run.list[run.item])) \in Nat
  BY DirIs
<1>2. run \in Runs
  BY DEF RunInv
<1>3. CASE run.depth < Len(Parts(run.list[run.item]))
  <2>1. run' = [run EXCEPT !.pc = "bind", !.depth = @ + 1]
    BY <1>3 DEF Onward
  <2>2. run.depth + 1 \in Nat
    BY <1>1
  <2>3. /\ run' \in Runs
        /\ run'.pc = "bind" /\ run'.name = run.name /\ run'.list = run.list
        /\ run'.item = run.item /\ run'.depth = run.depth + 1
    BY <1>2, <2>1, <2>2 DEF Runs
  <2> QED BY <1>3, <2>3
<1>4. CASE ~(run.depth < Len(Parts(run.list[run.item])))
  <2>1. run' = [run EXCEPT !.pc = "bind", !.item = @ + 1, !.depth = 0]
    BY <1>4 DEF Onward
  <2>2. run.depth = Len(Parts(run.list[run.item]))
    BY <1>1, <1>4
  <2>3. run.item + 1 \in Nat \ {0}
    BY <1>2 DEF Runs
  <2> DEFINE next == run.item + 1
  <2>4. run' = [run EXCEPT !.pc = "bind", !.item = next, !.depth = 0]
    BY <2>1
  <2>5. next \in Nat \ {0}
    BY <2>3
  <2> HIDE DEF next
  <2>6. run' \in Runs
    <3> DEFINE binding == [run EXCEPT !.pc = "bind"]
               first == [binding EXCEPT !.depth = 0]
    <3>1. binding \in Runs
      BY <1>2 DEF Runs
    <3> HIDE DEF binding
    <3>2. first \in Runs
      BY <3>1 DEF Runs
    <3> HIDE DEF first
    <3>3. [first EXCEPT !.item = next] \in Runs
      BY <2>5, <3>2 DEF Runs
    <3>4. run' = [first EXCEPT !.item = next]
      BY <1>2, <2>4 DEF first, binding, Runs
    <3> QED BY <3>3, <3>4
  <2>7. /\ run'.pc = "bind" /\ run'.name = run.name /\ run'.list = run.list
        /\ run'.item = next /\ run'.depth = 0
    BY <1>2, <2>4 DEF Runs
  <2>8. run'.item = run.item + 1
    BY <2>7 DEF next
  <2> QED BY <2>2, <2>6, <2>7, <2>8
<1>5. (run.depth < Len(Parts(run.list[run.item]))) \/ ~(run.depth < Len(Parts(run.list[run.item])))
  OBVIOUS
<1> QED BY <1>3, <1>4, <1>5, Zenon

LEMMA BeginIs ==
    ASSUME PrivateInv, NEW label \in Names, Begin(label)
    PROVE  /\ run' \in Runs
           /\ run'.pc = "bind" /\ run'.name = label /\ Valid(run'.list)
           /\ run'.item = 1 /\ run'.depth = 0
           /\ UNCHANGED <<owner, cut>>
           /\ run.pc = "down"
<1>1. containers[label] \in Ids /\ containers[label] \in 0..MaxContainers
  BY PrivateDirsAssumption DEF PrivateInv, ListInv, Begin, Ids, Nobody
<1>2. list[containers[label]] \in Seq(Items) /\ Valid(list[containers[label]])
  BY <1>1 DEF PrivateInv, ListInv
<1>3. run' = [Down EXCEPT !.pc = "bind", !.name = label, !.id = containers[label],
                          !.list = list[containers[label]]]
  BY DEF Begin
<1>4. Down \in Runs /\ Down.item = 1 /\ Down.depth = 0
  BY DownTyped DEF Down
<1>5. run' \in Runs
  BY <1>1, <1>2, <1>3, <1>4 DEF Runs
<1>6. /\ run'.pc = "bind" /\ run'.name = label
      /\ run'.list = list[containers[label]]
      /\ run'.item = 1 /\ run'.depth = 0
  BY <1>3, <1>4 DEF Runs
<1> QED BY <1>2, <1>5, <1>6 DEF Begin, ghosts

LEMMA BindIs ==
    ASSUME PrivateInv, BindPrivate
    PROVE  /\ run.pc = "bind" /\ run.item <= Len(run.list)
           /\ UNCHANGED cut
           /\ \/ /\ owner[<<run.name, Dir>>] # "none"
                 /\ run' = Onward /\ UNCHANGED owner
              \/ /\ owner' = [owner EXCEPT ![<<run.name, Dir>>] = "root"]
                 /\ run' = [run EXCEPT !.pc = "chown"]
<1>1. run.list \in Seq(Items) /\ Valid(run.list) /\ run.item \in 1..Len(run.list)
  BY DEF PrivateInv, RunInv, Runs, BindPrivate
<1>2. Sane(run.list[run.item])
  BY <1>1, ValidIsSane
<1> QED BY <1>2 DEF BindPrivate, ghosts

LEMMA RunNext == PrivateInv /\ [PrivateNext]_privateVars => RunInv' /\ NsboxdAccepts'
<1> SUFFICES ASSUME PrivateInv, [PrivateNext]_privateVars
             PROVE  RunInv' /\ NsboxdAccepts'
  OBVIOUS
<1>0. RunInv /\ NsboxdAccepts
  BY DEF PrivateInv
<1>1. ASSUME NEW label \in Names, Begin(label) PROVE RunInv' /\ NsboxdAccepts'
  <2>1. \A item \in Items : Len(Parts(item)) \in Nat
    BY ItemsAre, PartsTyped
  <2>2. run' \in Runs /\ run'.pc = "bind" /\ run'.name = label /\ Valid(run'.list)
        /\ run'.item = 1 /\ run'.depth = 0
    BY <1>1, BeginIs
  <2>3. 1 <= Len(run'.list) => 0 <= Len(Parts(run'.list[1]))
    <3>1. run'.list \in Seq(Items)
      BY <2>2 DEF Runs
    <3>2. 1 <= Len(run'.list) => run'.list[1] \in Items
      BY <3>1
    <3> QED BY <2>1, <3>2
  <2> QED BY <2>2, <2>3 DEF RunInv, NsboxdAccepts
<1>2. ASSUME run.pc \in {"bind", "chown"}, run.item <= Len(run.list), run' = Onward
      PROVE  RunInv' /\ NsboxdAccepts'
  <2>1. /\ run' \in Runs
        /\ run'.pc = "bind" /\ run'.name = run.name /\ run'.list = run.list
        /\ \/ /\ run.depth < Len(Parts(run.list[run.item]))
              /\ run'.item = run.item /\ run'.depth = run.depth + 1
           \/ run'.item = run.item + 1 /\ run'.depth = 0
    BY <1>0, <1>2, OnwardIs
  <2>2. run.name \in Names /\ Valid(run.list)
    BY <1>0, <1>2 DEF RunInv
  <2>3. run'.item <= Len(run'.list) =>
            run'.depth <= Len(Parts(run'.list[run'.item]))
    <3>1. run.list \in Seq(Items) /\ run.item \in Nat \ {0} /\ run.depth \in Nat
      BY <1>0 DEF RunInv, Runs
    <3>2. \A k \in 1..Len(run.list) : Len(Parts(run.list[k])) \in Nat
      BY <3>1, ItemsAre, PartsTyped
    <3>3. CASE run'.item = run.item
      BY <1>2, <2>1, <3>1, <3>2, <3>3
    <3>4. CASE run'.item # run.item
      <4>1. run'.depth = 0 /\ run'.item \in Nat \ {0}
        BY <2>1, <3>1, <3>4
      <4>2. run'.item <= Len(run'.list) => run'.item \in 1..Len(run.list)
        BY <2>1, <3>1, <4>1
      <4> QED BY <2>1, <3>2, <4>1, <4>2
    <3> QED BY <3>3, <3>4
  <2> QED BY <2>1, <2>2, <2>3 DEF RunInv, NsboxdAccepts
<1>3. CASE BindPrivate
  <2>1. CASE run' = Onward
    BY <1>2, <1>3, <2>1, BindIs
  <2>2. CASE run' = [run EXCEPT !.pc = "chown"]
    <3>1. /\ run' \in Runs /\ run'.pc = "chown" /\ run'.name = run.name
          /\ run'.list = run.list /\ run'.item = run.item /\ run'.depth = run.depth
      BY <1>0, <2>2 DEF RunInv, Runs
    <3>2. run.pc = "bind" /\ run.item <= Len(run.list)
      BY <1>3, BindIs
    <3> QED BY <1>0, <3>1, <3>2 DEF RunInv, NsboxdAccepts
  <2> QED BY <1>3, <2>1, <2>2, BindIs
<1>4. CASE Chown
  BY <1>0, <1>2, <1>4 DEF Chown, RunInv
<1>5. CASE Nspawn
  <2>1. /\ run' = [run EXCEPT !.pc = "up"]
        /\ run.pc = "bind" /\ run.item > Len(run.list)
    BY <1>5 DEF Nspawn
  <2>2. /\ run' \in Runs /\ run'.pc = "up" /\ run'.name = run.name
        /\ run'.list = run.list /\ run'.item = run.item /\ run'.depth = run.depth
    BY <1>0, <2>1 DEF RunInv, Runs
  <2> QED BY <1>0, <2>1, <2>2 DEF RunInv, NsboxdAccepts
<1>6. CASE StartDies \/ Stop
  <2>1. run' = Down
    BY <1>6 DEF StartDies, Stop
  <2> QED BY <2>1, DownTyped, EmptyList DEF RunInv, NsboxdAccepts
<1>7. CASE \/ \E label \in Names : Create(label) \/ Delete(label)
           \/ \E label, new \in Names : Rename(label, new)
           \/ \E label \in Names, args \in Commands : Config(label, args)
           \/ \E dir \in Dirs : Write(dir)
           \/ UNCHANGED privateVars
  <2>1. UNCHANGED run
    BY <1>7 DEF Create, Delete, Rename, Config, Write, privateVars
  <2> QED BY <1>0, <2>1 DEF RunInv, NsboxdAccepts
<1> QED BY <1>1, <1>3, <1>4, <1>5, <1>6, <1>7 DEF PrivateNext

LEMMA OwnerNext == PrivateInv /\ [PrivateNext]_privateVars => OwnerInv'
<1> SUFFICES ASSUME PrivateInv, [PrivateNext]_privateVars PROVE OwnerInv'
  OBVIOUS
<1>0. RunInv /\ OwnerInv
  BY DEF PrivateInv
<1>1. ASSUME UNCHANGED owner, run.pc # "chown", cut \subseteq cut' PROVE OwnerInv'
  BY <1>0, <1>1 DEF OwnerInv
<1>2. ASSUME NEW label \in Names, Begin(label) PROVE OwnerInv'
  BY <1>1, <1>2, BeginIs
<1>3. CASE BindPrivate
  <2>1. run.pc = "bind" /\ run.item <= Len(run.list) /\ UNCHANGED cut
    BY <1>3, BindIs
  <2>2. CASE UNCHANGED owner
    BY <1>1, <2>1, <2>2
  <2>3. CASE /\ owner' = [owner EXCEPT ![<<run.name, Dir>>] = "root"]
             /\ run' = [run EXCEPT !.pc = "chown"]
    <3>1. /\ run'.pc = "chown" /\ run'.name = run.name /\ run'.list = run.list
          /\ run'.item = run.item /\ run'.depth = run.depth
      BY <1>0, <2>3 DEF RunInv, Runs
    <3>2. <<run.name, Dir>>' = <<run.name, Dir>>
      BY <3>1 DEF Dir
    <3>3. owner' \in [Names \X Dirs -> {"none", "root", "user"}]
      BY <1>0, <2>3 DEF OwnerInv
    <3>4. \A place \in Names \X Dirs :
              owner'[place] = "root" => place \in cut \/ place = <<run.name, Dir>>
      <4> HIDE DEF Dir
      <4> QED BY <1>0, <2>1, <2>3 DEF OwnerInv
    <3> QED BY <2>1, <3>1, <3>2, <3>3, <3>4 DEF OwnerInv
  <2> QED BY <1>3, <2>2, <2>3, BindIs
<1>4. CASE Chown
  <2>1. owner' = [owner EXCEPT ![<<run.name, Dir>>] = "user"] /\ UNCHANGED cut
    BY <1>4 DEF Chown, ghosts
  <2> QED BY <1>0, <2>1 DEF OwnerInv
<1>5. CASE Nspawn
  BY <1>1, <1>5 DEF Nspawn, ghosts
<1>6. CASE StartDies
  <2>1. UNCHANGED owner
        /\ cut' = IF run.pc = "chown" THEN cut \cup {<<run.name, Dir>>} ELSE cut
    BY <1>6 DEF StartDies
  <2>2. \A place : place \in cut \/ (run.pc = "chown" /\ place = <<run.name, Dir>>)
                     => place \in cut'
    BY <2>1
  <2> QED BY <1>0, <2>1, <2>2 DEF OwnerInv
<1>7. CASE Stop
  BY <1>1, <1>7 DEF Stop, ghosts
<1>8. CASE \/ \E label \in Names : Create(label) \/ Delete(label)
           \/ \E label, new \in Names : Rename(label, new)
           \/ \E label \in Names, args \in Commands : Config(label, args)
           \/ \E dir \in Dirs : Write(dir)
           \/ UNCHANGED privateVars
  <2>1. UNCHANGED <<run, owner, cut>>
    BY <1>8 DEF Create, Delete, Rename, Config, Write, privateVars, ghosts
  <2>2. Dir' = Dir
    BY <2>1 DEF Dir
  <2> QED BY <1>0, <2>1, <2>2 DEF OwnerInv
<1> QED BY <1>2, <1>3, <1>4, <1>5, <1>6, <1>7, <1>8 DEF PrivateNext

\* A directory never goes away.
LEMMA OwnerStays ==
    ASSUME PrivateInv, [PrivateNext]_privateVars, NEW place \in Names \X Dirs,
           owner[place] # "none"
    PROVE  owner'[place] # "none"
<1>1. owner \in [Names \X Dirs -> {"none", "root", "user"}]
  BY DEF PrivateInv, OwnerInv
<1>2. CASE BindPrivate
  <2>1. \/ UNCHANGED owner
        \/ owner' = [owner EXCEPT ![<<run.name, Dir>>] = "root"]
    BY <1>2, BindIs
  <2> QED BY <1>1, <2>1
<1>3. CASE Chown
  <2>1. owner' = [owner EXCEPT ![<<run.name, Dir>>] = "user"]
    BY <1>3 DEF Chown
  <2> QED BY <1>1, <2>1
<1>4. CASE ~BindPrivate /\ ~Chown
  <2>1. UNCHANGED owner
    BY <1>4 DEF PrivateNext, privateVars, Begin, Create, Delete, Rename, Config,
        Write, Nspawn, StartDies, Stop
  <2> QED BY <2>1
<1> QED BY <1>2, <1>3, <1>4

LEMMA MadeNext == PrivateInv /\ [PrivateNext]_privateVars => MadeInv'
<1> SUFFICES ASSUME PrivateInv, [PrivateNext]_privateVars PROVE MadeInv'
  OBVIOUS
<1>0. RunInv /\ MadeInv
  BY DEF PrivateInv
<1>1. ASSUME NEW list0 \in Seq(Items), NEW k \in 1..Len(list0),
             NEW d \in 0..Len(Parts(list0[k])), NEW label \in Names
      PROVE  /\ <<label, SubSeq(Parts(list0[k]), 1, d)>> \in Names \X Dirs
             /\ d \in Nat /\ k \in Nat
  <2>1. list0[k] \in Items
    OBVIOUS
  <2>2. Len(Parts(list0[k])) \in Nat
    BY <2>1, ItemsAre, PartsTyped
  <2>3. SubSeq(Parts(list0[k]), 1, d) \in Dirs
    BY <2>1, AboveAre
  <2>4. d \in Nat /\ k \in Nat
    BY <2>2
  <2> QED BY <2>3, <2>4
<1>2. ASSUME run.pc \in {"bind", "chown"}, run.item <= Len(run.list),
             owner'[<<run.name, Dir>>] # "none", run' = Onward
      PROVE  MadeInv'
  <2>1. run.list \in Seq(Items) /\ run.item \in Nat \ {0} /\ run.depth \in Nat
        /\ run.name \in Names
    BY <1>0, <1>2 DEF RunInv, Runs
  <2>2. /\ run'.pc = "bind" /\ run'.name = run.name /\ run'.list = run.list
        /\ \/ /\ run.depth < Len(Parts(run.list[run.item]))
              /\ run'.item = run.item /\ run'.depth = run.depth + 1
           \/ /\ run.depth = Len(Parts(run.list[run.item]))
              /\ run'.item = run.item + 1 /\ run'.depth = 0
    BY <1>0, <1>2, OnwardIs
  <2>3. ASSUME NEW k \in 1..Len(run.list), NEW d \in 0..Len(Parts(run.list[k])),
               k < run'.item \/ (k = run'.item /\ d < run'.depth)
        PROVE  owner'[<<run.name, SubSeq(Parts(run.list[k]), 1, d)>>] # "none"
    <3>1. /\ <<run.name, SubSeq(Parts(run.list[k]), 1, d)>> \in Names \X Dirs
          /\ d \in Nat /\ k \in Nat
      BY <1>1, <2>1
    <3>2. CASE k < run.item \/ (k = run.item /\ d < run.depth)
      <4>1. owner[<<run.name, SubSeq(Parts(run.list[k]), 1, d)>>] # "none"
        BY <1>0, <1>2, <3>2 DEF MadeInv
      <4> QED BY <3>1, <4>1, OwnerStays
    <3>3. CASE ~(k < run.item \/ (k = run.item /\ d < run.depth))
      <4>1. k = run.item
        BY <2>1, <2>2, <2>3, <3>1, <3>3
      <4>2. d <= Len(Parts(run.list[run.item])) /\ Len(Parts(run.list[run.item])) \in Nat
        <5>1. Len(Parts(run.list[run.item])) \in Nat
          BY <1>0, <1>2, DirIs
        <5> QED BY <4>1, <5>1
      <4>3. d = run.depth
        BY <2>1, <2>2, <2>3, <3>1, <3>3, <4>1, <4>2
      <4> QED BY <1>2, <4>1, <4>3 DEF Dir
    <3> QED BY <3>2, <3>3
  <2> QED BY <2>2, <2>3 DEF MadeInv
<1>3. ASSUME NEW label \in Names, Begin(label) PROVE MadeInv'
  <2>1. run' \in Runs /\ run'.item = 1 /\ run'.depth = 0 /\ run'.name \in Names
    BY <1>3, BeginIs
  <2>2. run'.list \in Seq(Items)
    BY <2>1 DEF Runs
  <2>3. \A k \in 1..Len(run'.list) : \A d \in 0..Len(Parts(run'.list[k])) :
            d \in Nat /\ k \in Nat
    BY <1>1, <2>1, <2>2
  <2>4. \A k \in 1..Len(run'.list) : \A d \in 0..Len(Parts(run'.list[k])) :
            ~(k < run'.item \/ (k = run'.item /\ d < run'.depth)) /\ k >= 1
    BY <2>1, <2>3
  <2> QED BY <2>4 DEF MadeInv
<1>4. CASE BindPrivate
  <2>1. run.pc = "bind" /\ run.item <= Len(run.list)
    BY <1>4, BindIs
  <2>2. CASE owner[<<run.name, Dir>>] # "none" /\ run' = Onward
    <3>1. <<run.name, Dir>> \in Names \X Dirs
      BY <1>0, <2>1, DirIs
    <3>2. owner'[<<run.name, Dir>>] # "none"
      BY <2>2, <3>1, OwnerStays
    <3> QED BY <1>2, <2>1, <2>2, <3>2
  <2>3. CASE run' = [run EXCEPT !.pc = "chown"]
    <3>1. /\ run'.name = run.name /\ run'.list = run.list
          /\ run'.item = run.item /\ run'.depth = run.depth
      BY <1>0, <2>3 DEF RunInv, Runs
    <3>2. run.list \in Seq(Items) /\ run.name \in Names
      BY <1>0, <2>1 DEF RunInv, Runs
    <3> QED BY <1>0, <1>1, <2>1, <3>1, <3>2, OwnerStays DEF MadeInv
  <2> QED BY <1>4, <2>2, <2>3, BindIs
<1>5. CASE Chown
  <2>1. run.pc = "chown" /\ run.item <= Len(run.list)
    BY <1>0, <1>5 DEF Chown, RunInv
  <2>2. <<run.name, Dir>> \in Names \X Dirs
    BY <1>0, <2>1, DirIs
  <2>3. owner'[<<run.name, Dir>>] = "user"
    BY <1>5, <2>2 DEF Chown, PrivateInv, OwnerInv
  <2> QED BY <1>2, <1>5, <2>1, <2>3 DEF Chown
<1>6. CASE Nspawn
  <2>1. run' = [run EXCEPT !.pc = "up"] /\ run.pc = "bind" /\ UNCHANGED owner
    BY <1>6 DEF Nspawn
  <2>2. /\ run'.name = run.name /\ run'.list = run.list
        /\ run'.item = run.item /\ run'.depth = run.depth
    BY <1>0, <2>1 DEF RunInv, Runs
  <2> QED BY <1>0, <2>1, <2>2 DEF MadeInv
<1>7. CASE StartDies \/ Stop
  <2>1. run' = Down
    BY <1>7 DEF StartDies, Stop
  <2> QED BY <2>1, DownTyped DEF MadeInv
<1>8. CASE \/ \E label \in Names : Create(label) \/ Delete(label)
           \/ \E label, new \in Names : Rename(label, new)
           \/ \E label \in Names, args \in Commands : Config(label, args)
           \/ \E dir \in Dirs : Write(dir)
           \/ UNCHANGED privateVars
  <2>1. UNCHANGED <<run, owner>>
    BY <1>8 DEF Create, Delete, Rename, Config, Write, privateVars
  <2> QED BY <1>0, <2>1 DEF MadeInv
<1> QED BY <1>3, <1>4, <1>5, <1>6, <1>7, <1>8 DEF PrivateNext

LEMMA PrivateInvariant == PrivateSpec => []PrivateInv
<1>1. PrivateInit => PrivateInv
  BY PrivateInitInv
<1>2. PrivateInv /\ [PrivateNext]_privateVars => PrivateInv'
  BY ListNext, RunNext, OwnerNext, MadeNext DEF PrivateInv
<1> QED BY <1>1, <1>2, PTL DEF PrivateSpec

\* Of every set of commands, and however starts die, nsboxd never panics in
\* bindPrivate: a list that UpdateConfig saved has passed its two expressions,
\* and nothing that passes them fails the check for "/" and "..".
THEOREM Accepts == PrivateSpec => []NsboxdAccepts
<1>1. PrivateInv => NsboxdAccepts
  BY DEF PrivateInv
<1> QED BY <1>1, PrivateInvariant, PTL

\* Whatever commands are given, in whatever order, the list of a container has
\* just the items that the guide says they amount to, each of them once unless a
\* command named it twice: the folds of Value and Apply do what the guide says.
THEOREM AsAsked == PrivateSpec => []ListAsAsked
<1>1. PrivateInv => ListAsAsked
  BY DEF PrivateInv
<1> QED BY <1>1, PrivateInvariant, PTL

\* A running container shows its own directory wherever an item of the list it
\* was started with lies above, and the user's elsewhere, for every list: the
\* order of bindPrivate's mounts and their depth do not matter.
THEOREM ShowsPrivate == PrivateSpec => []PrivateShown
<1>1. PrivateInv => PrivateShown
  <2> SUFFICES ASSUME PrivateInv, NEW dir \in Dirs
               PROVE  LET over == {item \in ToSet(run.list) : IsPrefix(Parts(item), dir)}
                          twice == /\ over # {} /\ <<".">> \notin over
                                   /\ \A item \in over : Parts(item) = <<>>
                      IN  \/ twice
                          \/ Shown(dir) = {IF over = {} THEN Host(dir) ELSE Private(dir)}
    BY DEF PrivateShown
  <2>1. run.list \in Seq(Items) /\ dir \in Path
    BY DirsTyped DEF PrivateInv, RunInv, Runs
  <2> QED BY <2>1, ShownRight
<1> QED BY <1>1, PrivateInvariant, PTL

\* When the container runs, MkdirAllOwnedByUser has been at every directory on
\* the way to every item: each is the user's, but for one that an earlier start
\* made and died before giving it away, which later starts take as it is.
THEOREM Owned == PrivateSpec => []OwnedByUser
<1>1. PrivateInv => OwnedByUser
  <2> SUFFICES ASSUME PrivateInv, run.pc = "up", NEW item \in ToSet(run.list),
                      NEW dir \in Above(Parts(item))
               PROVE  owner[<<run.name, dir>>] = "user" \/ <<run.name, dir>> \in cut
    BY DEF OwnedByUser
  <2>1. /\ run.list \in Seq(Items) /\ run.item \in Nat /\ run.item > Len(run.list)
        /\ run.name \in Names
    BY DEF PrivateInv, RunInv, Runs
  <2>2. PICK k \in 1..Len(run.list) : item = run.list[k]
    BY <2>1 DEF ToSet
  <2>3. PICK d \in 0..Len(Parts(item)) : dir = SubSeq(Parts(item), 1, d)
    BY DEF Above
  <2>4. item \in Items
    BY <2>1, <2>2
  <2>5. <<run.name, dir>> \in Names \X Dirs
    BY <2>1, <2>3, <2>4, AboveAre
  <2>6. k < run.item
    BY <2>1
  <2>7. owner[<<run.name, dir>>] # "none"
    BY <2>2, <2>3, <2>6 DEF PrivateInv, MadeInv
  <2> QED BY <2>5, <2>7 DEF PrivateInv, OwnerInv
<1> QED BY <1>1, PrivateInvariant, PTL
=============================================================================
