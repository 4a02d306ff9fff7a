------------------------------ MODULE Session ------------------------------
(***************************************************************************)
(* Entering a container: EnterContainer (internal/session) with the pty it *)
(* gets from the pty service, the two goroutines that forward that pty     *)
(* (nsbox-ptyfwd.c), the one that forwards signals, and the command as it  *)
(* comes up in the container (nsbox-host enter).  A container that is not  *)
(* booted is entered by nsenter, a booted one by systemd-run.              *)
(*                                                                         *)
(* What is typed and what is printed are numbered in order; 0 is whatever  *)
(* else was in memory.  Window sizes and raw mode are left out.            *)
(***************************************************************************)
EXTENDS Naturals, Sequences, SequencesExt

CONSTANTS
    Terminals,   \* the sets of standard streams that may be terminals
    MaxData,     \* bound: units typed, and units printed
    MaxSignals   \* bound: signals sent to nsbox

ASSUME SessionAssumption ==
    /\ Terminals \subseteq SUBSET {"stdin", "stdout", "stderr"}
    /\ MaxData \in Nat
    /\ MaxSignals \in Nat

Directions == {"in", "out"}
Signals == {"INT", "TSTP", "QUIT", "HUP"}
Deadly == Signals \ {"TSTP"}

VARIABLES
    boot,      \* Config.Boot
    tty,       \* the standard streams of nsbox that are terminals
    hungup,    \* whether the user's terminal has gone away
    host,      \* EnterContainer
    handle,    \* its variable handle, of two words
    code,      \* what it returns; "signal" is 128 or more
    client,    \* the process it waits for: nsenter or systemd-run
    cmd,       \* the process in the container
    status,    \* how that ended
    queue,     \* what is on its way, and what has arrived at either end
    fwd,       \* the goroutines in nsbox_forward_pty
    torn,      \* directions in which a write was cut short
    catcher,   \* the goroutine that forwards signals, or the one it has
    made,      \* how much has been typed and printed
    sent       \* how many signals

session == <<boot, tty>>
streams == <<hungup, queue, fwd, torn, made>>
signals == <<catcher, sent>>
vars == <<session, host, handle, code, client, cmd, status, streams, signals>>

Queues == {"keyboard", "ptyin", "command", "ptyout", "screen"}
Source == [in |-> "keyboard", out |-> "ptyout"]
Target == [in |-> "ptyin", out |-> "screen"]
Ends == [in |-> "command", out |-> "screen"]
Over == host \in {"returned", "failed", "fatal", "panicked", "killed",
                  "replaced"}
\* Everything printed is forwarded to stdout or stderr, if one is a terminal.
PtyFor(d) == IF d = "in" THEN "stdin" \in tty
                         ELSE tty \cap {"stdout", "stderr"} # {}

Forwarders == [pc : {"off", "read", "write", "stray", "ended"},
               buf : Seq(Nat)]
Results == {"none", "ok", "error", "signal"}

TypeOK ==
    /\ boot \in BOOLEAN
    /\ tty \in Terminals
    /\ hungup \in BOOLEAN
    /\ host \in {"open", "forward", "notify", "enter", "assign", "wait",
                 "query", "returned", "failed", "fatal", "panicked",
                 "killed", "replaced"}
    /\ handle \in {"nil", "half", "set"}
    /\ code \in Results
    /\ client \in {"none", "running", "signalled", "ended"}
    /\ cmd \in {"none", "connecting", "running", "ended"}
    /\ status \in Results
    /\ queue \in [Queues -> Seq(Nat)]
    /\ fwd \in [Directions -> Forwarders]
    /\ torn \in SUBSET Directions
    /\ catcher \in {"off", "ready"} \cup Signals
    /\ made \in [Directions -> 0..MaxData]
    /\ sent \in 0..MaxSignals

Init ==
    /\ boot \in BOOLEAN
    /\ tty \in Terminals
    /\ hungup = FALSE
    /\ host = "open"
    /\ handle = "nil"
    /\ code = "none"
    /\ client = "none"
    /\ cmd = "none"
    /\ status = "none"
    /\ queue = [q \in Queues |-> <<>>]
    /\ fwd = [d \in Directions |-> [pc |-> "off", buf |-> <<>>]]
    /\ torn = {}
    /\ catcher = "off"
    /\ made = [d \in Directions |-> 0]
    /\ sent = 0

-----------------------------------------------------------------------------
(***************************************************************************)
(* EnterContainer                                                          *)
(***************************************************************************)
\* OpenPtyInContainer: a pty, or an error if the service is not there or
\* gives none.  None is asked for when no stream is a terminal.
OpenPty ==
    /\ host = "open"
    /\ \/ tty = {} /\ host' = "notify"
       \/ tty # {} /\ host' \in {"forward", "failed"}
    /\ UNCHANGED <<session, handle, code, client, cmd, status, streams,
                   signals>>

StartForwarding ==
    /\ host = "forward"
    /\ host' = "notify"
    /\ fwd' = [d \in Directions |->
                  [fwd[d] EXCEPT !.pc = IF PtyFor(d) THEN "read" ELSE "off"]]
    /\ UNCHANGED <<session, handle, code, client, cmd, status, hungup, queue,
                   torn, made, signals>>

NotifySignals ==
    /\ host = "notify"
    /\ host' = "enter"
    /\ catcher' = "ready"
    /\ UNCHANGED <<session, handle, code, client, cmd, status, streams,
                   sent>>

\* door.Enter.  nsenter takes the place of nsbox when there is no pty.
EnterDoor ==
    /\ host = "enter"
    /\ IF ~boot /\ tty = {}
       THEN host' = "replaced" /\ UNCHANGED <<client, cmd>>
       ELSE host' = "assign" /\ client' = "running" /\ cmd' = "connecting"
    /\ UNCHANGED <<session, handle, code, status, streams, signals>>

\* The container has no leader, or the client cannot be started.
EnterFails ==
    /\ host = "enter"
    /\ host' = "failed"
    /\ UNCHANGED <<session, handle, code, client, cmd, status, streams,
                   signals>>

\* handle is written while the goroutine may read it: one word, then two.
AssignHandle ==
    /\ host = "assign"
    /\ IF handle = "nil"
       THEN handle' = "half" /\ UNCHANGED host
       ELSE handle' = "set" /\ host' = "wait"
    /\ UNCHANGED <<session, code, client, cmd, status, streams, signals>>

\* Mutant of Wait: it also waits until all output has been forwarded.
WaitForOutput ==
    /\ host = "wait"
    /\ client = "ended"
    /\ fwd["out"].pc \in {"off", "ended"}
    /\ IF boot
       THEN host' = "query" /\ UNCHANGED code
       ELSE host' = "returned" /\ code' = status
    /\ UNCHANGED <<session, handle, client, cmd, status, streams, signals>>

\* The client ends: nsenter as the command did, or by a signal of its own.
\* When it cannot be waited for there is no status, which is looked at before
\* the error is.
Wait ==
    /\ host = "wait"
    /\ client \in {"ended", "signalled"}
    /\ \/ boot /\ host' = "query" /\ UNCHANGED code
       \/ /\ ~boot /\ host' = "returned"
          /\ code' = IF client = "ended" THEN status ELSE "signal"
       \/ host' = "panicked" /\ UNCHANGED code
    /\ UNCHANGED <<session, handle, client, cmd, status, streams, signals>>

\* Mutant of QueryUnit: only ExecMainStatus is looked at.
QueryStatus ==
    /\ host = "query"
    /\ host' = "returned"
    /\ code' \in {status, "ok"}
    /\ UNCHANGED <<session, handle, client, cmd, status, streams, signals>>

\* systemd is asked how the unit ended.  If it has unloaded the unit, both
\* properties are 0, which reads as signal 0; an error leaves no status.
QueryUnit ==
    /\ host = "query"
    /\ \/ host' = "returned" /\ code' \in {status, "signal"}
       \/ host' = "panicked" /\ UNCHANGED code
    /\ UNCHANGED <<session, handle, client, cmd, status, streams, signals>>

HostStep == OpenPty \/ StartForwarding \/ NotifySignals \/ EnterDoor
            \/ EnterFails \/ AssignHandle \/ Wait \/ QueryUnit

-----------------------------------------------------------------------------
(***************************************************************************)
(* The command in the container, until nsbox is gone                       *)
(***************************************************************************)
\* ConnectPtys opens the pty for each stream that is a terminal.
ConnectPtys ==
    /\ ~Over /\ cmd = "connecting"
    /\ \/ cmd' = "running" /\ UNCHANGED status
       \/ cmd' = "ended" /\ status' = "error"
    /\ UNCHANGED <<session, host, handle, code, client, streams, signals>>

CommandPrints ==
    /\ ~Over /\ cmd = "running"
    /\ PtyFor("out")
    /\ made["out"] < MaxData
    /\ made' = [made EXCEPT !["out"] = @ + 1]
    /\ queue' = [queue EXCEPT !["ptyout"] = Append(@, made["out"] + 1)]
    /\ UNCHANGED <<session, host, handle, code, client, cmd, status, hungup,
                   fwd, torn, signals>>

CommandReads ==
    /\ ~Over /\ cmd = "running"
    /\ queue["ptyin"] # <<>>
    /\ queue' = [queue EXCEPT !["ptyin"] = Tail(@),
                              !["command"] = Append(@, Head(queue["ptyin"]))]
    /\ UNCHANGED <<session, host, handle, code, client, cmd, status, hungup,
                   fwd, torn, made, signals>>

CommandEnds ==
    /\ ~Over /\ cmd = "running"
    /\ cmd' = "ended"
    /\ status' \in {"ok", "error", "signal"}
    /\ UNCHANGED <<session, host, handle, code, client, streams, signals>>

ClientEnds ==
    /\ ~Over /\ client = "running"
    /\ cmd = "ended"
    /\ client' = "ended"
    /\ UNCHANGED <<session, host, handle, code, cmd, status, streams, signals>>

-----------------------------------------------------------------------------
(***************************************************************************)
(* nsbox_forward_pty                                                       *)
(***************************************************************************)
\* The user types, or closes the terminal.
Type ==
    /\ ~Over /\ ~hungup
    /\ "stdin" \in tty
    /\ made["in"] < MaxData
    /\ made' = [made EXCEPT !["in"] = @ + 1]
    /\ queue' = [queue EXCEPT !["keyboard"] = Append(@, made["in"] + 1)]
    /\ UNCHANGED <<session, host, handle, code, client, cmd, status, hungup,
                   fwd, torn, signals>>

HangUp ==
    /\ ~Over /\ ~hungup
    /\ tty # {}
    /\ hungup' = TRUE
    /\ UNCHANGED <<session, host, handle, code, client, cmd, status, queue,
                   fwd, torn, made, signals>>

FwdGoto(d, pc) == fwd' = [fwd EXCEPT ![d].pc = pc]
InFwd(d, pc) == ~Over /\ fwd[d].pc = pc

Read(d) ==
    /\ InFwd(d, "read")
    /\ \E n \in 1..Len(queue[Source[d]]) :
          /\ fwd' = [fwd EXCEPT ![d] =
                        [pc |-> "write",
                         buf |-> SubSeq(queue[Source[d]], 1, n)]]
          /\ queue' = [queue EXCEPT ![Source[d]] = SubSeq(@, n + 1, Len(@))]
    /\ UNCHANGED <<session, host, handle, code, client, cmd, status, hungup,
                   torn, made, signals>>

\* Mutants of AfterEIO: the error ends the forwarding, or is its new state.
AfterEIOEnds == "ended"
AfterEIOFails == "EIO"

\* Reading a pty that nobody has open, not yet or not any more, fails with
\* EIO, and is tried again.
AfterEIO == "read"
ReadEIO ==
    /\ InFwd("out", "read")
    /\ queue["ptyout"] = <<>>
    /\ cmd # "running"
    /\ FwdGoto("out", AfterEIO)
    /\ UNCHANGED <<session, host, handle, code, client, cmd, status, hungup,
                   queue, torn, made, signals>>

\* A terminal that has gone away reads as at its end.
ReadEnd ==
    /\ InFwd("in", "read")
    /\ hungup
    /\ queue["keyboard"] = <<>>
    /\ FwdGoto("in", "ended")
    /\ UNCHANGED <<session, host, handle, code, client, cmd, status, hungup,
                   queue, torn, made, signals>>

Deliver(d, data, pc) ==
    /\ ~(hungup /\ d = "out")
    /\ queue' = [queue EXCEPT ![Target[d]] = @ \o data]
    /\ FwdGoto(d, pc)
    /\ UNCHANGED <<session, host, handle, code, client, cmd, status, hungup,
                   made, signals>>

Write(d) ==
    /\ InFwd(d, "write")
    /\ Deliver(d, fwd[d].buf, "read")
    /\ UNCHANGED torn

\* Mutant of WriteShort: the whole buffer is written again.
WriteShortAgain(d) ==
    /\ InFwd(d, "write")
    /\ \E n \in 1..(Len(fwd[d].buf) - 1) :
          Deliver(d, SubSeq(fwd[d].buf, 1, n), "write")
    /\ UNCHANGED torn

\* A signal may cut a write short.  The next one is to start at offs, but
\* "&buffer + offs" counts in whole buffers: it writes what happens to be
\* there, or fails with EFAULT.
WriteShort(d) ==
    /\ InFwd(d, "write")
    /\ \E n \in 1..(Len(fwd[d].buf) - 1) :
          Deliver(d, SubSeq(fwd[d].buf, 1, n), "stray")
    /\ torn' = torn \cup {d}

WriteStray(d) ==
    /\ InFwd(d, "stray")
    /\ Deliver(d, <<0>>, "read")
    /\ UNCHANGED torn

\* Any error of a write ends nsbox (log.Fatal).
WriteFails(d) ==
    /\ \/ InFwd(d, "stray")
       \/ InFwd(d, "write") /\ hungup /\ d = "out"
    /\ host' = "fatal"
    /\ UNCHANGED <<session, handle, code, client, cmd, status, streams,
                   signals>>

ForwardStep(d) == Read(d) \/ Write(d) \/ WriteShort(d) \/ WriteStray(d)
                  \/ WriteFails(d)

-----------------------------------------------------------------------------
(***************************************************************************)
(* Signals                                                                 *)
(***************************************************************************)
\* Before Notify a signal does what it always does.  The channel has no
\* buffer: one that comes while the goroutine is busy is dropped.
Signal(s) ==
    /\ ~Over
    /\ sent < MaxSignals
    /\ sent' = sent + 1
    /\ \/ catcher = "off" /\ s \in Deadly /\ host' = "killed" /\ UNCHANGED catcher
       \/ catcher = "ready" /\ catcher' = s /\ UNCHANGED host
       \/ catcher \in Signals /\ UNCHANGED <<host, catcher>>
    /\ UNCHANGED <<session, handle, code, client, cmd, status, streams>>

\* Without a handle the signal is ignored.  One of which only a word is
\* written is read as none, or the call dies of it.
DropSignal ==
    /\ ~Over
    /\ catcher \in Signals
    /\ handle \in {"nil", "half"}
    /\ \/ catcher' = "ready" /\ UNCHANGED host
       \/ handle = "half" /\ host' = "panicked" /\ UNCHANGED catcher
    /\ UNCHANGED <<session, handle, code, client, cmd, status, streams,
                   sent>>

\* nsenter gets the signal, which may end it.  For a unit the signal is not
\* passed on: systemctl kill, without one, sends SIGTERM to the command.
ForwardSignal ==
    /\ ~Over
    /\ catcher \in Signals
    /\ handle = "set"
    /\ catcher' = "ready"
    /\ \/ UNCHANGED <<client, cmd, status>>
       \/ /\ boot /\ cmd \in {"connecting", "running"}
          /\ cmd' = "ended" /\ status' = "signal"
          /\ UNCHANGED client
       \/ /\ ~boot /\ client = "running" /\ catcher \in Deadly
          /\ client' = "signalled"
          /\ UNCHANGED <<cmd, status>>
    /\ UNCHANGED <<session, host, handle, code, streams, sent>>

Next ==
    \/ HostStep
    \/ ConnectPtys \/ CommandPrints \/ CommandReads \/ CommandEnds
    \/ ClientEnds
    \/ Type \/ HangUp
    \/ \E d \in Directions : ForwardStep(d)
    \/ ReadEIO \/ ReadEnd
    \/ \E s \in Signals : Signal(s)
    \/ DropSignal \/ ForwardSignal

\* The goroutines of nsbox go on, and its client ends with the command, which
\* itself may run as long as it likes.
Fairness ==
    /\ WF_vars(HostStep)
    /\ WF_vars(ClientEnds)
    /\ \A d \in Directions : WF_vars(ForwardStep(d))

Spec == Init /\ [][Next]_vars
FairSpec == Spec /\ Fairness

-----------------------------------------------------------------------------
(***************************************************************************)
(* Properties                                                              *)
(***************************************************************************)
\* What arrives at the command or at the terminal is what was typed or
\* printed, in order, with nothing lost or repeated in between, unless a
\* write was cut short (nsbox-ptyfwd.c).
StreamsInOrder ==
    \A d \in Directions \ torn :
        IsPrefix(queue[Ends[d]], [i \in 1..made[d] |-> i])

\* What the command prints is shown in the end, though the forwarding has
\* begun before anyone has the pty open, unless the session is over first.
OutputShown ==
    \A i \in 1..MaxData :
        made["out"] >= i
            ~> Over \/ "out" \in torn \/ i \in Range(queue["screen"])

\* When the command has ended nsbox ends too, though the forwarding does not.
SessionEnds == cmd = "ended" ~> Over

\* An exit code that is not a signal's is the command's own, whichever way
\* nsbox learns of it (enter_nsenter.go:33, enter_systemd.go:93).
ExitCodeTrue ==
    host = "returned" /\ code # "signal" => code = status
=============================================================================
