--------------------------- MODULE SessionProofs ---------------------------
(***************************************************************************)
(* Proofs about Session, for any terminals, any amount of data and any     *)
(* number of signals: what arrives on the streams, and the exit code.      *)
(***************************************************************************)
EXTENDS Session, SequenceTheorems, TLAPS

\* s is the units lo + 1 to hi.
Run(s, lo, hi) ==
    /\ s \in Seq(Nat)
    /\ lo \in Nat /\ hi \in Nat
    /\ hi = lo + Len(s)
    /\ \A i \in 1..Len(s) : s[i] = lo + i

\* What has been read in the direction d and is not written yet.
Pending(d) == IF fwd[d].pc = "write" THEN fwd[d].buf ELSE <<>>

\* What has arrived, is on its way and is still to be read, one behind the
\* other, is all that was made.
InLine ==
    "in" \notin torn =>
        \E a, b, c \in Nat : /\ Run(queue["command"], 0, a)
                            /\ Run(queue["ptyin"], a, b)
                            /\ Run(Pending("in"), b, c)
                            /\ Run(queue["keyboard"], c, made["in"])

OutLine ==
    "out" \notin torn =>
        \E a, b \in Nat : /\ Run(queue["screen"], 0, a)
                         /\ Run(Pending("out"), a, b)
                         /\ Run(queue["ptyout"], b, made["out"])

\* Only a write that was cut short leads to a stray one.
StrayInv == \A d \in Directions : fwd[d].pc = "stray" => d \in torn

\* Nothing is forwarded before there is a pty.
OffInv == host \in {"open", "forward"} => \A d \in Directions : fwd[d].pc = "off"

IInv == InLine /\ OutLine /\ StrayInv /\ OffInv /\ ExitCodeTrue

-----------------------------------------------------------------------------
(***************************************************************************)
(* Sequences of consecutive units                                          *)
(***************************************************************************)
LEMMA RunEmpty ==
    ASSUME NEW lo \in Nat
    PROVE  Run(<<>>, lo, lo) /\ \A hi : Run(<<>>, lo, hi) => hi = lo
  BY EmptySeq DEF Run

LEMMA RunAppend ==
    ASSUME NEW s, NEW lo, NEW hi, Run(s, lo, hi)
    PROVE  Run(Append(s, hi + 1), lo, hi + 1)
<1>1. s \in Seq(Nat) /\ Len(s) \in Nat /\ hi + 1 \in Nat
  BY LenProperties DEF Run
<1> DEFINE t == Append(s, hi + 1)
<1>2. /\ t \in Seq(Nat) /\ Len(t) = Len(s) + 1
      /\ \A i \in 1..Len(s) : t[i] = s[i]
      /\ t[Len(s) + 1] = hi + 1
  BY <1>1, AppendProperties
<1>3. lo \in Nat /\ hi \in Nat /\ hi = lo + Len(s) /\ \A i \in 1..Len(s) : s[i] = lo + i
  BY DEF Run
<1> HIDE DEF t
<1>4. \A i \in 1..Len(t) : t[i] = lo + i
  <2> TAKE i \in 1..Len(t)
  <2>1. CASE i \in 1..Len(s)
    BY <1>2, <1>3, <2>1
  <2>2. CASE i = Len(s) + 1
    <3>1. t[i] = hi + 1
      BY <1>2, <2>2
    <3>2. lo + i = hi + 1
      BY <1>1, <1>3, <2>2
    <3> QED BY <3>1, <3>2
  <2>3. i \in 1..Len(s) \/ i = Len(s) + 1
    BY <1>1, <1>2
  <2> QED BY <2>1, <2>2, <2>3
<1>5. Run(t, lo, hi + 1)
  BY <1>1, <1>2, <1>3, <1>4 DEF Run
<1> QED BY <1>5 DEF t

LEMMA RunConcat ==
    ASSUME NEW s, NEW t, NEW lo, NEW mid, NEW hi, Run(s, lo, mid), Run(t, mid, hi)
    PROVE  Run(s \o t, lo, hi)
<1>1. s \in Seq(Nat) /\ t \in Seq(Nat) /\ Len(s) \in Nat /\ Len(t) \in Nat
  BY LenProperties DEF Run
<1>2. s \o t \in Seq(Nat) /\ Len(s \o t) = Len(s) + Len(t)
  BY <1>1, ConcatProperties
<1>3. ASSUME NEW i \in 1..(Len(s) + Len(t))
      PROVE  (s \o t)[i] = lo + i
  <2>1. (s \o t)[i] = IF i <= Len(s) THEN s[i] ELSE t[i - Len(s)]
    BY <1>1, ConcatProperties
  <2> QED BY <1>1, <2>1 DEF Run
<1> QED BY <1>1, <1>2, <1>3 DEF Run

LEMMA PartTyped ==
    ASSUME NEW s \in Seq(Nat), NEW m \in Nat, NEW n \in Nat, 1 <= m, n <= Len(s)
    PROVE  SubSeq(s, m, n) \in Seq(Nat)
<1>1. \A i \in m..n : i \in 1..Len(s)
  BY LenProperties
<1>2. \A i \in m..n : s[i] \in Nat
  BY <1>1, LenProperties
<1> QED BY <1>2, SubSeqProperties

LEMMA RunSplit ==
    ASSUME NEW s, NEW lo, NEW hi, Run(s, lo, hi), NEW n \in 1..Len(s)
    PROVE  /\ lo + n \in Nat
           /\ Run(SubSeq(s, 1, n), lo, lo + n)
           /\ Run(SubSeq(s, n + 1, Len(s)), lo + n, hi)
<1>1. s \in Seq(Nat) /\ Len(s) \in Nat
  BY LenProperties DEF Run
<1>2. /\ SubSeq(s, 1, n) \in Seq(Nat) /\ Len(SubSeq(s, 1, n)) = n
      /\ \A i \in 1..n : SubSeq(s, 1, n)[i] = s[i]
  BY <1>1, SubSeqProperties
<1>3. /\ SubSeq(s, n + 1, Len(s)) \in Seq(Nat)
      /\ Len(SubSeq(s, n + 1, Len(s))) = Len(s) - n
      /\ \A i \in 1..(Len(s) - n) : SubSeq(s, n + 1, Len(s))[i] = s[n + i]
  BY <1>1, SubSeqProperties
<1> DEFINE t == SubSeq(s, 1, n)
           u == SubSeq(s, n + 1, Len(s))
<1>4. /\ lo \in Nat /\ hi \in Nat /\ hi = lo + Len(s) /\ \A i \in 1..Len(s) : s[i] = lo + i
      /\ n \in Nat /\ lo + n \in Nat
  BY <1>1 DEF Run
<1> HIDE DEF t, u
<1>5. Run(t, lo, lo + n)
  BY <1>1, <1>2, <1>4 DEF Run, t
<1>6. Run(u, lo + n, hi)
  <2>1. u \in Seq(Nat) /\ Len(u) = Len(s) - n
    BY <1>3 DEF u
  <2>2. \A i \in 1..Len(u) : u[i] = lo + n + i
    <3> TAKE i \in 1..Len(u)
    <3>1. u[i] = s[n + i] /\ n + i \in 1..Len(s)
      BY <1>1, <1>3, <1>4, <2>1 DEF u
    <3> QED BY <1>4, <3>1
  <2>3. hi = lo + n + Len(u)
    BY <1>1, <1>4, <2>1
  <2> QED BY <1>4, <2>1, <2>2, <2>3 DEF Run
<1> QED BY <1>4, <1>5, <1>6 DEF t, u

LEMMA RunTail ==
    ASSUME NEW s, NEW lo, NEW hi, Run(s, lo, hi), s # <<>>
    PROVE  /\ Head(s) = lo + 1 /\ lo + 1 \in Nat
           /\ Run(Tail(s), lo + 1, hi)
<1>1. s \in Seq(Nat) /\ Len(s) \in Nat \ {0}
  BY LenProperties, EmptySeq DEF Run
<1> QED BY <1>1, HeadTailProperties DEF Run

LEMMA RunOrder ==
    ASSUME NEW s, NEW lo, NEW hi, Run(s, lo, hi)
    PROVE  lo <= hi
<1>1. Len(s) \in Nat /\ lo \in Nat /\ hi = lo + Len(s)
  BY LenProperties DEF Run
<1> QED BY <1>1

LEMMA RunPrefix ==
    ASSUME NEW s, NEW m, Run(s, 0, m), NEW n \in Nat, m <= n
    PROVE  IsPrefix(s, [i \in 1..n |-> i])
<1> DEFINE t == [i \in 1..n |-> i]
<1>1. s \in Seq(Nat) /\ Len(s) \in Nat /\ t \in Seq(Nat) /\ Len(t) = n /\ Len(s) <= n
  BY LenProperties DEF Run
<1>2. /\ SubSeq(t, 1, Len(s)) \in Seq(Nat) /\ Len(SubSeq(t, 1, Len(s))) = Len(s)
      /\ \A i \in 1..Len(s) : SubSeq(t, 1, Len(s))[i] = i
  BY <1>1, SubSeqProperties
<1>3. SubSeq(t, 1, Len(s)) = s
  BY <1>1, <1>2, SeqEqual DEF Run
<1>4. SubSeq(s, 1, Len(s)) = s
  BY <1>1, SubSeqFull
<1> QED BY <1>1, <1>3, <1>4 DEF IsPrefix

-----------------------------------------------------------------------------
(***************************************************************************)
(* Types                                                                   *)
(***************************************************************************)
LEMMA ForwarderTyped ==
    ASSUME TypeOK, NEW d \in Directions
    PROVE  /\ fwd[d].pc \in {"off", "read", "write", "stray", "ended"}
           /\ fwd[d].buf \in Seq(Nat)
           /\ Pending(d) \in Seq(Nat)
           /\ Source[d] \in Queues /\ Target[d] \in Queues
           /\ queue[Source[d]] \in Seq(Nat) /\ queue[Target[d]] \in Seq(Nat)
  BY EmptySeq DEF TypeOK, Forwarders, Pending, Directions, Source, Target, Queues

LEMMA GotoTyped ==
    ASSUME TypeOK, NEW d \in Directions, NEW pc \in {"read", "write", "stray", "ended"},
           FwdGoto(d, pc)
    PROVE  fwd' \in [Directions -> Forwarders]
  BY DEF TypeOK, Forwarders, FwdGoto

LEMMA InitTyped == Init => TypeOK
<1> SUFFICES ASSUME Init PROVE TypeOK
  OBVIOUS
<1>1. [pc |-> "off", buf |-> <<>>] \in Forwarders
  BY EmptySeq DEF Forwarders
<1>2. queue \in [Queues -> Seq(Nat)] /\ fwd \in [Directions -> Forwarders]
  BY <1>1, EmptySeq DEF Init
<1>3. 0 \in 0..MaxData /\ 0 \in 0..MaxSignals
  BY SessionAssumption DEF SessionAssumption
<1> QED BY <1>2, <1>3 DEF Init, TypeOK, Results

\* Steps of the host, of the command and of signals that leave the streams.
LEMMA PlainTyped ==
    ASSUME TypeOK,
           \/ OpenPty \/ NotifySignals \/ EnterDoor \/ EnterFails \/ AssignHandle
           \/ Wait \/ QueryUnit \/ ConnectPtys \/ CommandEnds \/ ClientEnds
           \/ HangUp \/ DropSignal \/ ForwardSignal
    PROVE  TypeOK'
<1> USE DEF TypeOK, session, streams, signals, Results
<1>1. CASE OpenPty \/ NotifySignals \/ EnterDoor \/ EnterFails
  BY <1>1 DEF OpenPty, NotifySignals, EnterDoor, EnterFails
<1>2. CASE AssignHandle \/ Wait \/ QueryUnit
  BY <1>2 DEF AssignHandle, Wait, QueryUnit
<1>3. CASE ConnectPtys \/ CommandEnds \/ ClientEnds \/ HangUp
  <2>1. CASE ConnectPtys \/ CommandEnds
    BY <2>1 DEF ConnectPtys, CommandEnds
  <2>2. CASE ClientEnds
    BY <2>2 DEF ClientEnds
  <2>3. CASE HangUp
    <3>1. hungup' = TRUE
      BY <2>3 DEF HangUp
    <3> QED BY <2>3, <3>1 DEF HangUp
  <2> QED BY <1>3, <2>1, <2>2, <2>3
<1>4. CASE DropSignal \/ ForwardSignal
  BY <1>4 DEF DropSignal, ForwardSignal
<1> QED BY <1>1, <1>2, <1>3, <1>4

LEMMA SignalTyped ==
    ASSUME TypeOK, NEW s \in Signals, Signal(s)
    PROVE  TypeOK'
<1>1. sent' \in 0..MaxSignals
  BY SessionAssumption DEF Signal, TypeOK, SessionAssumption
<1> QED BY <1>1 DEF Signal, TypeOK, session, streams

\* Steps that only put units into queues, or take them out.
LEMMA QueuesTyped ==
    ASSUME TypeOK, queue' \in [Queues -> Seq(Nat)], made' \in [Directions -> 0..MaxData],
           UNCHANGED <<boot, tty, hungup, host, handle, code, client, cmd, status, fwd,
                       torn, catcher, sent>>
    PROVE  TypeOK'
  BY DEF TypeOK

LEMMA StreamTyped ==
    ASSUME TypeOK, StartForwarding \/ CommandPrints \/ CommandReads \/ Type
                   \/ ReadEIO \/ ReadEnd
    PROVE  TypeOK'
<1>1. CASE StartForwarding
  <2>1. fwd' \in [Directions -> Forwarders]
    BY <1>1 DEF StartForwarding, TypeOK, Forwarders
  <2> QED BY <1>1, <2>1 DEF StartForwarding, TypeOK, session, signals
<1>2. CASE CommandPrints
  <2>1. made' \in [Directions -> 0..MaxData] /\ made["out"] + 1 \in Nat
    BY <1>2, SessionAssumption DEF CommandPrints, TypeOK, SessionAssumption, Directions
  <2>2. Append(queue["ptyout"], made["out"] + 1) \in Seq(Nat)
    BY <2>1, AppendProperties DEF TypeOK, Queues
  <2>3. queue' \in [Queues -> Seq(Nat)]
    BY <1>2, <2>2 DEF CommandPrints, TypeOK
  <2>4. UNCHANGED <<boot, tty, hungup, host, handle, code, client, cmd, status, fwd,
                    torn, catcher, sent>>
    BY <1>2 DEF CommandPrints, session, signals
  <2> QED BY <2>1, <2>3, <2>4, QueuesTyped
<1>3. CASE CommandReads
  <2>1. queue["ptyin"] \in Seq(Nat) /\ queue["command"] \in Seq(Nat)
    BY DEF TypeOK, Queues
  <2>2. Tail(queue["ptyin"]) \in Seq(Nat) /\ Head(queue["ptyin"]) \in Nat
    BY <1>3, <2>1, HeadTailProperties DEF CommandReads
  <2>3. Append(queue["command"], Head(queue["ptyin"])) \in Seq(Nat)
    BY <2>1, <2>2, AppendProperties
  <2>4. queue' \in [Queues -> Seq(Nat)]
    BY <1>3, <2>2, <2>3 DEF CommandReads, TypeOK
  <2>5. made' \in [Directions -> 0..MaxData]
    BY <1>3 DEF CommandReads, TypeOK
  <2>6. UNCHANGED <<boot, tty, hungup, host, handle, code, client, cmd, status, fwd,
                    torn, catcher, sent>>
    BY <1>3 DEF CommandReads, session, signals
  <2> QED BY <2>4, <2>5, <2>6, QueuesTyped
<1>4. CASE Type
  <2>1. made' \in [Directions -> 0..MaxData] /\ made["in"] + 1 \in Nat
    BY <1>4, SessionAssumption DEF Type, TypeOK, SessionAssumption, Directions
  <2>2. Append(queue["keyboard"], made["in"] + 1) \in Seq(Nat)
    BY <2>1, AppendProperties DEF TypeOK, Queues
  <2>3. queue' \in [Queues -> Seq(Nat)]
    BY <1>4, <2>2 DEF Type, TypeOK
  <2>4. UNCHANGED <<boot, tty, hungup, host, handle, code, client, cmd, status, fwd,
                    torn, catcher, sent>>
    BY <1>4 DEF Type, session, signals
  <2> QED BY <2>1, <2>3, <2>4, QueuesTyped
<1>5. CASE ReadEIO
  BY <1>5, GotoTyped DEF ReadEIO, AfterEIO, Directions, TypeOK, session, signals
<1>6. CASE ReadEnd
  BY <1>6, GotoTyped DEF ReadEnd, Directions, TypeOK, session, signals
<1> QED BY <1>1, <1>2, <1>3, <1>4, <1>5, <1>6

LEMMA DeliverTyped ==
    ASSUME TypeOK, NEW d \in Directions, NEW data \in Seq(Nat),
           NEW pc \in {"read", "stray"}, Deliver(d, data, pc), torn' \in SUBSET Directions
    PROVE  TypeOK'
<1>1. queue[Target[d]] \o data \in Seq(Nat)
  BY ForwarderTyped, ConcatProperties
<1>2. queue' \in [Queues -> Seq(Nat)]
  BY <1>1 DEF Deliver, TypeOK
<1> QED BY <1>2, GotoTyped DEF Deliver, TypeOK, session, signals

LEMMA ForwardTyped ==
    ASSUME TypeOK, NEW d \in Directions, ForwardStep(d)
    PROVE  TypeOK'
<1>1. CASE Read(d)
  <2> PICK n \in 1..Len(queue[Source[d]]) :
          /\ fwd' = [fwd EXCEPT ![d] =
                        [pc |-> "write", buf |-> SubSeq(queue[Source[d]], 1, n)]]
          /\ queue' = [queue EXCEPT ![Source[d]] = SubSeq(@, n + 1, Len(@))]
    BY <1>1 DEF Read
  <2> DEFINE q == queue[Source[d]]
  <2>1. q \in Seq(Nat) /\ Len(q) \in Nat
    <3>1. q \in Seq(Nat)
      BY ForwarderTyped
    <3> QED BY <3>1, LenProperties
  <2>2. SubSeq(q, 1, n) \in Seq(Nat)
    BY <2>1, PartTyped
  <2>3. SubSeq(q, n + 1, Len(q)) \in Seq(Nat)
    <3>1. n + 1 \in Nat /\ 1 <= n + 1
      BY <2>1
    <3> QED BY <2>1, <3>1, PartTyped
  <2>4. fwd' \in [Directions -> Forwarders] /\ queue' \in [Queues -> Seq(Nat)]
    BY <2>2, <2>3 DEF TypeOK, Forwarders
  <2> QED BY <1>1, <2>4 DEF Read, TypeOK, session, signals
<1>2. CASE Write(d)
  BY <1>2, ForwarderTyped, DeliverTyped DEF Write, TypeOK
<1>3. CASE WriteShort(d)
  <2> PICK n \in 1..(Len(fwd[d].buf) - 1) : Deliver(d, SubSeq(fwd[d].buf, 1, n), "stray")
    BY <1>3 DEF WriteShort
  <2>1. SubSeq(fwd[d].buf, 1, n) \in Seq(Nat)
    <3>1. fwd[d].buf \in Seq(Nat) /\ Len(fwd[d].buf) \in Nat
      BY ForwarderTyped, LenProperties
    <3>2. n \in Nat /\ n <= Len(fwd[d].buf)
      BY <3>1
    <3> QED BY <3>1, <3>2, PartTyped
  <2>2. torn' \in SUBSET Directions
    BY <1>3 DEF WriteShort, TypeOK
  <2> QED BY <2>1, <2>2, DeliverTyped
<1>4. CASE WriteStray(d)
  <2>1. <<0>> \in Seq(Nat)
    OBVIOUS
  <2> QED BY <1>4, <2>1, DeliverTyped DEF WriteStray, TypeOK
<1>5. CASE WriteFails(d)
  BY <1>5 DEF WriteFails, TypeOK, session, streams, signals
<1> QED BY <1>1, <1>2, <1>3, <1>4, <1>5 DEF ForwardStep

LEMMA NextTyped == TypeOK /\ [Next]_vars => TypeOK'
<1> SUFFICES ASSUME TypeOK, [Next]_vars PROVE TypeOK'
  OBVIOUS
<1>1. CASE UNCHANGED vars
  BY <1>1 DEF TypeOK, vars, session, streams, signals
<1> QED BY <1>1, PlainTyped, SignalTyped, StreamTyped, ForwardTyped DEF Next, HostStep

-----------------------------------------------------------------------------
(***************************************************************************)
(* The streams                                                             *)
(***************************************************************************)
\* The steps that move no unit, nor any forwarder but between reading states.
LEMMA StillLines ==
    ASSUME TypeOK, InLine, OutLine, StrayInv, UNCHANGED <<queue, torn, made>>,
           \A d \in Directions :
              \/ fwd'[d] = fwd[d]
              \/ /\ fwd[d].pc \in {"off", "read"}
                 /\ fwd'[d].pc \in {"off", "read", "ended"}
    PROVE  InLine' /\ OutLine' /\ StrayInv'
<1>1. \A d \in Directions : Pending(d)' = Pending(d)
  BY DEF Pending
<1>2. Pending("in")' = Pending("in") /\ Pending("out")' = Pending("out")
  BY <1>1 DEF Directions
<1> QED BY <1>2 DEF InLine, OutLine, StrayInv

LEMMA TypeLine ==
    ASSUME TypeOK, InLine, OutLine, StrayInv, Type
    PROVE  InLine' /\ OutLine' /\ StrayInv'
<1> DEFINE k == queue["keyboard"]
<1>1. /\ queue' = [queue EXCEPT !["keyboard"] = Append(k, made["in"] + 1)]
      /\ made' = [made EXCEPT !["in"] = made["in"] + 1]
      /\ UNCHANGED <<fwd, torn>>
  BY DEF Type
<1>2. /\ queue'["keyboard"] = Append(k, made["in"] + 1)
      /\ \A q \in Queues \ {"keyboard"} : queue'[q] = queue[q]
      /\ made'["in"] = made["in"] + 1 /\ made'["out"] = made["out"]
      /\ Pending("in")' = Pending("in") /\ Pending("out")' = Pending("out")
  BY <1>1 DEF TypeOK, Queues, Directions, Pending
<1>3. InLine'
  <2> SUFFICES ASSUME "in" \notin torn PROVE InLine'
    BY <1>1 DEF InLine
  <2> PICK a, b, c \in Nat : /\ Run(queue["command"], 0, a)
                            /\ Run(queue["ptyin"], a, b)
                            /\ Run(Pending("in"), b, c)
                            /\ Run(queue["keyboard"], c, made["in"])
    BY DEF InLine
  <2>1. Run(Append(k, made["in"] + 1), c, made["in"] + 1)
    BY RunAppend
  <2> QED BY <1>2, <2>1 DEF InLine, Queues
<1>4. OutLine'
  BY <1>1, <1>2 DEF OutLine, Queues
<1> QED BY <1>1, <1>3, <1>4 DEF StrayInv

LEMMA PrintLine ==
    ASSUME TypeOK, InLine, OutLine, StrayInv, CommandPrints
    PROVE  InLine' /\ OutLine' /\ StrayInv'
<1> DEFINE k == queue["ptyout"]
<1>1. /\ queue' = [queue EXCEPT !["ptyout"] = Append(k, made["out"] + 1)]
      /\ made' = [made EXCEPT !["out"] = made["out"] + 1]
      /\ UNCHANGED <<fwd, torn>>
  BY DEF CommandPrints
<1>2. /\ queue'["ptyout"] = Append(k, made["out"] + 1)
      /\ \A q \in Queues \ {"ptyout"} : queue'[q] = queue[q]
      /\ made'["out"] = made["out"] + 1 /\ made'["in"] = made["in"]
      /\ Pending("in")' = Pending("in") /\ Pending("out")' = Pending("out")
  BY <1>1 DEF TypeOK, Queues, Directions, Pending
<1>3. OutLine'
  <2> SUFFICES ASSUME "out" \notin torn PROVE OutLine'
    BY <1>1 DEF OutLine
  <2> PICK a, b \in Nat : /\ Run(queue["screen"], 0, a)
                         /\ Run(Pending("out"), a, b)
                         /\ Run(queue["ptyout"], b, made["out"])
    BY DEF OutLine
  <2>1. Run(Append(k, made["out"] + 1), b, made["out"] + 1)
    BY RunAppend
  <2> QED BY <1>2, <2>1 DEF OutLine, Queues
<1>4. InLine'
  BY <1>1, <1>2 DEF InLine, Queues
<1> QED BY <1>1, <1>3, <1>4 DEF StrayInv

LEMMA CommandReadsLine ==
    ASSUME TypeOK, InLine, OutLine, StrayInv, CommandReads
    PROVE  InLine' /\ OutLine' /\ StrayInv'
<1> DEFINE s == queue["command"]
           t == queue["ptyin"]
<1>1. /\ queue' = [queue EXCEPT !["ptyin"] = Tail(t), !["command"] = Append(s, Head(t))]
      /\ t # <<>>
      /\ UNCHANGED <<fwd, torn, made>>
  BY DEF CommandReads
<1>2. /\ queue'["ptyin"] = Tail(t) /\ queue'["command"] = Append(s, Head(t))
      /\ \A q \in Queues \ {"ptyin", "command"} : queue'[q] = queue[q]
      /\ Pending("in")' = Pending("in") /\ Pending("out")' = Pending("out")
  BY <1>1 DEF TypeOK, Queues, Pending
<1>3. InLine'
  <2> SUFFICES ASSUME "in" \notin torn PROVE InLine'
    BY <1>1 DEF InLine
  <2> PICK a, b, c \in Nat : /\ Run(queue["command"], 0, a)
                            /\ Run(queue["ptyin"], a, b)
                            /\ Run(Pending("in"), b, c)
                            /\ Run(queue["keyboard"], c, made["in"])
    BY DEF InLine
  <2>1. Head(t) = a + 1 /\ a + 1 \in Nat /\ Run(Tail(t), a + 1, b)
    BY <1>1, RunTail
  <2>2. Run(Append(s, a + 1), 0, a + 1)
    BY RunAppend
  <2>3. Run(queue'["command"], 0, a + 1) /\ Run(queue'["ptyin"], a + 1, b)
    BY <1>2, <2>1, <2>2
  <2> QED BY <1>1, <1>2, <2>1, <2>3 DEF InLine, Queues
<1>4. OutLine'
  BY <1>1, <1>2 DEF OutLine, Queues
<1> QED BY <1>1, <1>3, <1>4 DEF StrayInv

LEMMA ReadLine ==
    ASSUME TypeOK, InLine, OutLine, StrayInv, NEW d \in Directions, Read(d)
    PROVE  InLine' /\ OutLine' /\ StrayInv'
<1> DEFINE k == queue[Source[d]]
<1> PICK n \in 1..Len(k) :
        /\ fwd' = [fwd EXCEPT ![d] = [pc |-> "write", buf |-> SubSeq(k, 1, n)]]
        /\ queue' = [queue EXCEPT ![Source[d]] = SubSeq(k, n + 1, Len(k))]
  BY DEF Read
<1>1. UNCHANGED <<torn, made>> /\ fwd[d].pc = "read"
  BY DEF Read, InFwd
<1>2. /\ Pending(d) = <<>> /\ Pending(d)' = SubSeq(k, 1, n)
      /\ \A e \in Directions : e # d => Pending(e)' = Pending(e)
      /\ queue'[Source[d]] = SubSeq(k, n + 1, Len(k))
      /\ \A q \in Queues : q # Source[d] => queue'[q] = queue[q]
  BY <1>1, ForwarderTyped DEF Pending, TypeOK
<1>3. StrayInv'
  BY <1>1 DEF StrayInv, TypeOK
<1>4. ASSUME d = "in" PROVE InLine' /\ OutLine'
  <2>1. Source[d] = "keyboard"
    BY <1>4 DEF Source
  <2>2. OutLine'
    BY <1>1, <1>2, <1>4, <2>1 DEF OutLine, Queues, Directions
  <2>3. InLine'
    <3> SUFFICES ASSUME "in" \notin torn PROVE InLine'
      BY <1>1 DEF InLine
    <3> PICK a, b, c \in Nat : /\ Run(queue["command"], 0, a)
                              /\ Run(queue["ptyin"], a, b)
                              /\ Run(Pending("in"), b, c)
                              /\ Run(queue["keyboard"], c, made["in"])
      BY DEF InLine
    <3>1. c = b
      BY <1>2, <1>4, RunEmpty
    <3>2. /\ c + n \in Nat
          /\ Run(SubSeq(k, 1, n), c, c + n)
          /\ Run(SubSeq(k, n + 1, Len(k)), c + n, made["in"])
      BY <2>1, RunSplit
    <3> QED BY <1>1, <1>2, <1>4, <2>1, <3>1, <3>2 DEF InLine, Queues
  <2> QED BY <2>2, <2>3
<1>5. ASSUME d = "out" PROVE InLine' /\ OutLine'
  <2>1. Source[d] = "ptyout"
    BY <1>5 DEF Source
  <2>2. InLine'
    BY <1>1, <1>2, <1>5, <2>1 DEF InLine, Queues, Directions
  <2>3. OutLine'
    <3> SUFFICES ASSUME "out" \notin torn PROVE OutLine'
      BY <1>1 DEF OutLine
    <3> PICK a, b \in Nat : /\ Run(queue["screen"], 0, a)
                           /\ Run(Pending("out"), a, b)
                           /\ Run(queue["ptyout"], b, made["out"])
      BY DEF OutLine
    <3>1. b = a
      BY <1>2, <1>5, RunEmpty
    <3>2. /\ b + n \in Nat
          /\ Run(SubSeq(k, 1, n), b, b + n)
          /\ Run(SubSeq(k, n + 1, Len(k)), b + n, made["out"])
      BY <2>1, RunSplit
    <3> QED BY <1>1, <1>2, <1>5, <2>1, <3>1, <3>2 DEF OutLine, Queues
  <2> QED BY <2>2, <2>3
<1> QED BY <1>3, <1>4, <1>5 DEF Directions

\* A whole buffer arrives.
LEMMA WriteLine ==
    ASSUME TypeOK, InLine, OutLine, StrayInv, NEW d \in Directions, Write(d)
    PROVE  InLine' /\ OutLine' /\ StrayInv'
<1> DEFINE k == queue[Target[d]]
           r == fwd[d].buf
<1>1. /\ fwd[d].pc = "write" /\ UNCHANGED <<torn, made>>
      /\ queue' = [queue EXCEPT ![Target[d]] = k \o r]
      /\ fwd' = [fwd EXCEPT ![d].pc = "read"]
  BY DEF Write, InFwd, Deliver, FwdGoto
<1>2. /\ Pending(d) = r /\ Pending(d)' = <<>> /\ fwd'[d].pc = "read"
      /\ \A e \in Directions : e # d => Pending(e)' = Pending(e) /\ fwd'[e] = fwd[e]
      /\ queue'[Target[d]] = k \o r
      /\ \A q \in Queues : q # Target[d] => queue'[q] = queue[q]
  BY <1>1, ForwarderTyped DEF Pending, TypeOK, Forwarders
<1>3. StrayInv'
  BY <1>1, <1>2 DEF StrayInv
<1>4. ASSUME d = "in" PROVE InLine' /\ OutLine'
  <2>1. Target[d] = "ptyin"
    BY <1>4 DEF Target
  <2>2. OutLine'
    BY <1>1, <1>2, <1>4, <2>1 DEF OutLine, Queues, Directions
  <2>3. InLine'
    <3> SUFFICES ASSUME "in" \notin torn PROVE InLine'
      BY <1>1 DEF InLine
    <3> PICK a, b, c \in Nat : /\ Run(queue["command"], 0, a)
                              /\ Run(queue["ptyin"], a, b)
                              /\ Run(Pending("in"), b, c)
                              /\ Run(queue["keyboard"], c, made["in"])
      BY DEF InLine
    <3>1. Run(k \o r, a, c)
      BY <1>2, <1>4, <2>1, RunConcat
    <3>2. Run(<<>>, c, c)
      BY RunEmpty
    <3> QED BY <1>1, <1>2, <1>4, <2>1, <3>1, <3>2 DEF InLine, Queues
  <2> QED BY <2>2, <2>3
<1>5. ASSUME d = "out" PROVE InLine' /\ OutLine'
  <2>1. Target[d] = "screen"
    BY <1>5 DEF Target
  <2>2. InLine'
    BY <1>1, <1>2, <1>5, <2>1 DEF InLine, Queues, Directions
  <2>3. OutLine'
    <3> SUFFICES ASSUME "out" \notin torn PROVE OutLine'
      BY <1>1 DEF OutLine
    <3> PICK a, b \in Nat : /\ Run(queue["screen"], 0, a)
                           /\ Run(Pending("out"), a, b)
                           /\ Run(queue["ptyout"], b, made["out"])
      BY DEF OutLine
    <3>1. Run(k \o r, 0, b)
      BY <1>2, <1>5, <2>1, RunConcat
    <3>2. Run(<<>>, b, b)
      BY RunEmpty
    <3> QED BY <1>1, <1>2, <1>5, <2>1, <3>1, <3>2 DEF OutLine, Queues
  <2> QED BY <2>2, <2>3
<1> QED BY <1>3, <1>4, <1>5 DEF Directions

\* What a torn direction delivers does not matter, and the other one is left alone.
LEMMA TornLine ==
    ASSUME TypeOK, InLine, OutLine, StrayInv, NEW d \in Directions, d \in torn',
           NEW data, NEW pc \in {"read", "stray"}, Deliver(d, data, pc),
           torn' \in {torn, torn \cup {d}}
    PROVE  InLine' /\ OutLine' /\ StrayInv'
<1>1. /\ UNCHANGED made
      /\ \A e \in Directions : e # d => fwd'[e] = fwd[e] /\ Pending(e)' = Pending(e)
      /\ \A q \in Queues : q # Target[d] => queue'[q] = queue[q]
  BY DEF Deliver, FwdGoto, TypeOK, Pending
<1>2. \A e \in Directions : e # d => (e \in torn' <=> e \in torn)
  OBVIOUS
<1>3. StrayInv'
  BY <1>1, <1>2 DEF StrayInv
<1>4. ASSUME d = "in" PROVE InLine' /\ OutLine'
  BY <1>1, <1>2, <1>4 DEF InLine, OutLine, Target, Queues, Directions
<1>5. ASSUME d = "out" PROVE InLine' /\ OutLine'
  BY <1>1, <1>2, <1>5 DEF InLine, OutLine, Target, Queues, Directions
<1> QED BY <1>3, <1>4, <1>5 DEF Directions

\* All the steps at once.
LEMMA NextLines ==
    ASSUME TypeOK, InLine, OutLine, StrayInv, OffInv, [Next]_vars
    PROVE  InLine' /\ OutLine' /\ StrayInv'
<1>1. CASE UNCHANGED <<streams>>
  BY <1>1, StillLines DEF streams
<1>2. CASE StartForwarding
  <2>1. \A d \in Directions : fwd[d].pc = "off" /\ fwd'[d].pc \in {"off", "read"}
    BY <1>2 DEF StartForwarding, OffInv, TypeOK, Forwarders
  <2> QED BY <1>2, <2>1, StillLines DEF StartForwarding
<1>3. CASE HangUp
  BY <1>3, StillLines DEF HangUp
<1>4. CASE ReadEIO \/ ReadEnd
  <2>1. \A d \in Directions : \/ fwd'[d] = fwd[d]
                              \/ /\ fwd[d].pc \in {"off", "read"}
                                 /\ fwd'[d].pc \in {"off", "read", "ended"}
    BY <1>4 DEF ReadEIO, ReadEnd, InFwd, FwdGoto, AfterEIO, TypeOK, Forwarders, Directions
  <2> QED BY <1>4, <2>1, StillLines DEF ReadEIO, ReadEnd
<1>5. CASE \E d \in Directions : ForwardStep(d)
  <2> PICK d \in Directions : ForwardStep(d)
    BY <1>5
  <2>1. CASE Read(d)
    BY <2>1, ReadLine
  <2>2. CASE Write(d)
    BY <2>2, WriteLine
  <2>3. CASE WriteShort(d)
    <3> PICK n \in 1..(Len(fwd[d].buf) - 1) : Deliver(d, SubSeq(fwd[d].buf, 1, n), "stray")
      BY <2>3 DEF WriteShort
    <3> QED BY <2>3, TornLine DEF WriteShort
  <2>4. CASE WriteStray(d)
    <3>1. d \in torn
      BY <2>4 DEF WriteStray, InFwd, StrayInv
    <3> QED BY <2>4, <3>1, TornLine DEF WriteStray
  <2>5. CASE WriteFails(d)
    BY <1>1, <2>5 DEF WriteFails
  <2> QED BY <2>1, <2>2, <2>3, <2>4, <2>5 DEF ForwardStep
<1>6. CASE Type \/ CommandPrints \/ CommandReads
  BY <1>6, TypeLine, PrintLine, CommandReadsLine
<1>7. CASE HostStep /\ ~StartForwarding
  BY <1>1, <1>7 DEF HostStep, OpenPty, NotifySignals, EnterDoor, EnterFails, AssignHandle,
                    Wait, QueryUnit
<1>8. CASE ConnectPtys \/ CommandEnds \/ ClientEnds \/ DropSignal \/ ForwardSignal
           \/ \E s \in Signals : Signal(s)
  BY <1>1, <1>8 DEF ConnectPtys, CommandEnds, ClientEnds, DropSignal, ForwardSignal, Signal
<1>9. CASE UNCHANGED vars
  BY <1>1, <1>9 DEF vars
<1> QED BY <1>2, <1>3, <1>4, <1>5, <1>6, <1>7, <1>8, <1>9 DEF Next

-----------------------------------------------------------------------------
(***************************************************************************)
(* The host                                                                *)
(***************************************************************************)
\* How a step that is not the host's own may end it.
LEMMA OtherSteps ==
    ASSUME [Next]_vars, ~HostStep
    PROVE  /\ host' = host \/ (~Over /\ host' \in {"fatal", "killed", "panicked"})
           /\ Over => UNCHANGED <<code, status>>
           /\ UNCHANGED code
<1> USE DEF streams, signals, session
<1>1. CASE ConnectPtys \/ CommandPrints \/ CommandReads \/ CommandEnds \/ ClientEnds
  BY <1>1 DEF ConnectPtys, CommandPrints, CommandReads, CommandEnds, ClientEnds
<1>2. CASE Type \/ HangUp \/ ReadEIO \/ ReadEnd
  BY <1>2 DEF Type, HangUp, ReadEIO, ReadEnd
<1>3. ASSUME NEW d \in Directions, ForwardStep(d)
      PROVE  /\ host' = host \/ (~Over /\ host' = "fatal")
             /\ UNCHANGED <<code, status>>
  <2>1. CASE Read(d) \/ WriteFails(d)
    BY <2>1 DEF Read, WriteFails, InFwd
  <2>2. CASE Write(d) \/ WriteShort(d) \/ WriteStray(d)
    BY <2>2 DEF Write, WriteShort, WriteStray, Deliver
  <2> QED BY <1>3, <2>1, <2>2 DEF ForwardStep
<1>4. CASE DropSignal \/ ForwardSignal \/ \E s \in Signals : Signal(s)
  BY <1>4 DEF DropSignal, ForwardSignal, Signal
<1>5. CASE UNCHANGED vars
  BY <1>5 DEF vars
<1> QED BY <1>1, <1>2, <1>3, <1>4, <1>5 DEF Next

LEMMA OffNext ==
    ASSUME TypeOK, OffInv, [Next]_vars
    PROVE  OffInv'
<1>1. CASE HostStep
  <2>1. CASE OpenPty
    BY <2>1 DEF OpenPty, OffInv, streams
  <2>2. CASE ~OpenPty
    BY <1>1, <2>2 DEF HostStep, StartForwarding, NotifySignals, EnterDoor, EnterFails,
                      AssignHandle, Wait, QueryUnit, OffInv
  <2> QED BY <2>1, <2>2
<1>2. CASE ~HostStep /\ host' \in {"open", "forward"}
  <2>1. \A d \in Directions : fwd[d].pc = "off"
    BY <1>2, OtherSteps DEF OffInv
  <2>2. UNCHANGED fwd
    <3>1. CASE \E d \in Directions : ForwardStep(d)
      <4> PICK d \in Directions : ForwardStep(d)
        BY <3>1
      <4>1. fwd[d].pc \in {"read", "write", "stray"}
        BY DEF ForwardStep, Read, Write, WriteShort, WriteStray, WriteFails, InFwd
      <4> QED BY <2>1, <4>1
    <3>2. CASE ReadEIO \/ ReadEnd
      BY <2>1, <3>2 DEF ReadEIO, ReadEnd, InFwd, Directions
    <3>3. CASE ConnectPtys \/ CommandPrints \/ CommandReads \/ CommandEnds \/ ClientEnds
      BY <3>3 DEF ConnectPtys, CommandPrints, CommandReads, CommandEnds, ClientEnds, streams
    <3>4. CASE Type \/ HangUp
      BY <3>4 DEF Type, HangUp
    <3>5. CASE DropSignal \/ ForwardSignal \/ \E s \in Signals : Signal(s)
      BY <3>5 DEF DropSignal, ForwardSignal, Signal, streams
    <3>6. CASE UNCHANGED vars
      BY <3>6 DEF vars, streams
    <3> QED BY <1>2, <3>1, <3>2, <3>3, <3>4, <3>5, <3>6 DEF Next
  <2> QED BY <2>1, <2>2 DEF OffInv
<1> QED BY <1>1, <1>2 DEF OffInv

LEMMA CodeNext ==
    ASSUME ExitCodeTrue, [Next]_vars
    PROVE  ExitCodeTrue'
<1>1. CASE HostStep
  BY <1>1 DEF HostStep, OpenPty, StartForwarding, NotifySignals, EnterDoor, EnterFails,
              AssignHandle, Wait, QueryUnit, ExitCodeTrue
<1>2. CASE ~HostStep
  BY <1>2, OtherSteps DEF ExitCodeTrue, Over
<1> QED BY <1>1, <1>2

LEMMA InitInv == Init => IInv
<1> SUFFICES ASSUME Init PROVE IInv
  OBVIOUS
<1>1. /\ \A q \in Queues : queue[q] = <<>>
      /\ \A d \in Directions : fwd[d].pc = "off" /\ Pending(d) = <<>> /\ made[d] = 0
  BY DEF Init, Pending
<1>2. Run(<<>>, 0, 0)
  BY RunEmpty
<1> QED BY <1>1, <1>2 DEF Init, IInv, InLine, OutLine, StrayInv, OffInv, ExitCodeTrue,
                          Queues, Directions

LEMMA Invariance == Spec => [](TypeOK /\ IInv)
<1>1. TypeOK /\ IInv /\ [Next]_vars => (TypeOK /\ IInv)'
  BY NextTyped, NextLines, OffNext, CodeNext DEF IInv
<1> QED BY <1>1, InitTyped, InitInv, PTL DEF Spec

-----------------------------------------------------------------------------
(***************************************************************************)
(* Theorems                                                                *)
(***************************************************************************)
\* Every variable of Session keeps its type, for any terminals and bounds.
THEOREM Typing == Spec => []TypeOK
  BY Invariance, PTL

\* However reads and writes of any lengths, signals and the ends of the
\* command, its client and the terminal interleave, what arrives is what was
\* sent, in order and without a gap, unless a write was cut short
\* (nsbox_forward_pty in nsbox-ptyfwd.c).
THEOREM InOrder == Spec => []StreamsInOrder
<1>1. TypeOK /\ IInv => StreamsInOrder
  <2> SUFFICES ASSUME TypeOK, IInv, NEW d \in Directions, d \notin torn
               PROVE  IsPrefix(queue[Ends[d]], [i \in 1..made[d] |-> i])
    BY DEF StreamsInOrder
  <2>1. made[d] \in Nat
    BY SessionAssumption DEF TypeOK, SessionAssumption
  <2>2. CASE d = "in"
    <3> PICK a, b, c \in Nat : /\ Run(queue["command"], 0, a)
                              /\ Run(queue["ptyin"], a, b)
                              /\ Run(Pending("in"), b, c)
                              /\ Run(queue["keyboard"], c, made["in"])
      BY <2>2 DEF IInv, InLine
    <3>1. a <= b /\ b <= c /\ c <= made["in"]
      BY RunOrder
    <3>2. a <= made["in"]
      BY <2>1, <2>2, <3>1
    <3> QED BY <2>1, <2>2, <3>2, RunPrefix DEF Ends
  <2>3. CASE d = "out"
    <3> PICK a, b \in Nat : /\ Run(queue["screen"], 0, a)
                           /\ Run(Pending("out"), a, b)
                           /\ Run(queue["ptyout"], b, made["out"])
      BY <2>3 DEF IInv, OutLine
    <3>1. a <= b /\ b <= made["out"]
      BY RunOrder
    <3>2. a <= made["out"]
      BY <2>1, <2>3, <3>1
    <3> QED BY <2>1, <2>3, <3>2, RunPrefix DEF Ends
  <2> QED BY <2>2, <2>3 DEF Directions
<1> QED BY <1>1, Invariance, PTL

\* An exit code that is not a signal's is how the command ended, by whichever
\* way nsbox learnt of it, and stays so (enter_nsenter.go:33,
\* enter_systemd.go:93).
THEOREM CodeTrue == Spec => []ExitCodeTrue
<1>1. IInv => ExitCodeTrue
  BY DEF IInv
<1> QED BY <1>1, Invariance, PTL
=============================================================================
