---------------------------- MODULE ReplayProofs ----------------------------
(***************************************************************************)
(* Proofs about Replay, for any images, layouts, sessions and bounds: what *)
(* a saved digest says, and what who gets in finds.                        *)
(***************************************************************************)
EXTENDS Replay, TLAPS

Running(s) == session[s].pc \in {"playing", "move"}

\* The images of the chain that a session is done with are the first ones.
Behind(s) == 1..(Len(chain) - Len(session[s].todo))

\* Who is in the container is there while it runs, and what each step goes by
\* is there to go by.
Sane(s) ==
    /\ In(s, "out") => session[s] = Out
    /\ ~In(s, "out") => phase = "up"
    /\ session[s].pc \in {"digest", "playing", "move"} => session[s].todo # <<>>
    /\ session[s].pc \notin {"out", "in"} => session[s].replay
    /\ In(s, "in") /\ session[s].replay => session[s].todo = <<>>

SessionInv == \A s \in Sessions : Sane(s)

\* Every image in the chain is derived from the one before it.
ChainInv ==
    /\ phase # "down" =>
           \A n \in 2..Len(chain) : layout.parent[chain[n]] = chain[n - 1]
    /\ phase = "up" => chain # <<>> /\ layout.parent[chain[1]] = NoImage
    /\ phase = "resolve" =>
           /\ next \in Images
           /\ chain # <<>> => layout.parent[chain[1]] = next

\* No digest and no playbook is ahead of the files.
DigestInv == \A i \in Images :
    /\ saved[i].of <= content[i]
    /\ tmp[i].of <= content[i]
    /\ ran[i] <= content[i]
    /\ saved[i].of # None => ran[i] # None

\* A digest lists nothing but files of the revision it was taken of.
Genuine(d, i) == IF d.of = None THEN d.lines = {} ELSE d.lines \subseteq Lines(i, d.of)
LinesInv == \A i \in Images : Genuine(saved[i], i) /\ Genuine(tmp[i], i)

\* A digest that has not been taken again is no newer than the files that the
\* playbook was started with.
PlaysWith(s) == Running(s) =>
    /\ session[s].with <= content[Top(s)]
    /\ ~session[s].changed => session[s].with = content[Top(s)]
    /\ ~session[s].over => /\ saved[Top(s)].of <= session[s].with
                           /\ tmp[Top(s)].of <= session[s].with
    /\ In(s, "move") => session[s].with <= ran[Top(s)]

PlayInv == \A s \in Sessions : PlaysWith(s)

\* The lines by which a session was let past an image: the playbook has run
\* with those files, or will have when the image's digest is one session's own
\* again.
Fresh(i, lines) ==
    /\ lines # {}
    /\ lines \subseteq Lines(i, content[i])
    /\ \/ i \in Returned
       \/ ran[i] # None /\ lines \subseteq Lines(i, ran[i])
       \/ /\ i \in mixed
          /\ \A r \in Sessions : Running(r) /\ Top(r) = i /\ ~session[r].over
                 => lines \subseteq Lines(i, session[r].with)

GoesThrough(s) == ~In(s, "out") /\ session[s].replay =>
    /\ Len(session[s].todo) <= Len(chain)
    /\ \A n \in 1..Len(session[s].todo) :
           session[s].todo[n] = chain[Len(chain) - Len(session[s].todo) + n]
    /\ \A n \in Behind(s) : ran[chain[n]] # None
    /\ ~session[s].changed =>
           \A n \in Behind(s) : Fresh(chain[n], session[s].by[chain[n]])

BehindInv == \A s \in Sessions : GoesThrough(s)

IInv == SessionInv /\ ChainInv /\ DigestInv /\ LinesInv /\ PlayInv /\ BehindInv
            /\ SavedWasPlayed

-----------------------------------------------------------------------------
(***************************************************************************)
(* What the steps do to a session                                          *)
(***************************************************************************)
Pcs == {"out", "check", "digest", "play", "playing", "move", "in"}

LEMMA OutTyped == Out \in Session
  BY ReplayAssumption DEF Out, Session

\* A session goes on with something else.
LEMMA Edits ==
  ASSUME NEW r \in Session, NEW pc \in Pcs, NEW todo \in Seq(Images),
         NEW with \in 0..MaxUpdates, NEW b \in BOOLEAN
  PROVE  /\ [r EXCEPT !.pc = pc] \in Session
         /\ [r EXCEPT !.pc = pc, !.todo = todo, !.replay = b] \in Session
         /\ [r EXCEPT !.over = b] \in Session
         /\ [r EXCEPT !.changed = b] \in Session
         /\ [r EXCEPT !.pc = pc, !.over = b, !.with = with] \in Session
  BY DEF Session, Pcs

\* The lines of a revision are lines.
LEMMA LinesTyped ==
  ASSUME TypeOK, NEW i \in Images, NEW n \in 0..MaxUpdates
  PROVE  Lines(i, n) \in SUBSET Line /\ Lines(i, n) # {}
<1>1. layout.lines \in [Images -> [0..MaxUpdates -> (SUBSET Line) \ {{}}]]
  BY ReplayAssumption DEF TypeOK
<1>2. layout.lines[i] \in [0..MaxUpdates -> (SUBSET Line) \ {{}}]
  BY <1>1
<1>3. layout.lines[i][n] \in (SUBSET Line) \ {{}}
  BY <1>2
<1> QED BY <1>3 DEF Lines

\* A step of one session leaves the others alone.
Only(s, new) ==
    /\ session' \in [Sessions -> Session]
    /\ session'[s] = new
    /\ \A r \in Sessions \ {s} : session'[r] = session[r]

LEMMA OnlyThis ==
  ASSUME TypeOK, NEW s \in Sessions, NEW new \in Session,
         session' = [session EXCEPT ![s] = new]
  PROVE  Only(s, new)
  BY DEF TypeOK, Only

LEMMA GotoOnly ==
  ASSUME TypeOK, NEW s \in Sessions, NEW pc \in Pcs, Goto(s, pc)
  PROVE  Only(s, [session[s] EXCEPT !.pc = pc])
<1>1. session[s] \in Session
  BY DEF TypeOK
<1>2. [session[s] EXCEPT !.pc = pc] \in Session
  <2>1. ReplayAssumption /\ <<>> \in Seq(Images) /\ 0 \in 0..MaxUpdates
    BY ReplayAssumption
  <2> QED BY <1>1, <2>1, Edits
<1> QED BY <1>2, OnlyThis DEF Goto

\* A step of s that may make the digest of its image anew: whoever is running
\* the playbook of that image is marked.
Marks(s, new) ==
    /\ session' \in [Sessions -> Session]
    /\ session'[s] = new
    /\ \A r \in Sessions \ {s} :
           \/ /\ session'[r] = session[r]
              /\ Running(r) => tmp'[Top(r)] = tmp[Top(r)]
           \/ Running(r) /\ session'[r] = [session[r] EXCEPT !.over = TRUE]
    /\ tmp' \in [Images -> Digests]
    /\ \A i \in Images :
           \/ tmp'[i] = tmp[i]
           \/ tmp'[i].of = content[i] /\ tmp'[i].lines \subseteq Lines(i, content[i])

\* The head and the tail of what a session has to do.
LEMMA TodoTyped ==
  ASSUME TypeOK, NEW s \in Sessions, session[s].todo # <<>>
  PROVE  /\ Top(s) \in Images
         /\ Top(s) = session[s].todo[1]
         /\ Tail(session[s].todo) \in Seq(Images)
         /\ Len(session[s].todo) \in Nat \ {0}
         /\ Len(Tail(session[s].todo)) = Len(session[s].todo) - 1
         /\ \A n \in 1..Len(Tail(session[s].todo)) :
                Tail(session[s].todo)[n] = session[s].todo[n + 1]
<1>1. session[s].todo \in Seq(Images)
  BY DEF TypeOK, Session
<1> QED BY <1>1 DEF Top

LEMMA BeginOnly ==
  ASSUME TypeOK, NEW s \in Sessions, Begin(s)
  PROVE  \/ Only(s, [Out EXCEPT !.pc = "check", !.todo = chain, !.replay = TRUE])
         \/ Only(s, [session[s] EXCEPT !.pc = "in"])
<1>1. CASE session' = [session EXCEPT ![s] = [Out EXCEPT !.pc = "check", !.todo = chain,
                                                         !.replay = TRUE]]
  <2>1. chain \in Seq(Images) /\ "check" \in Pcs /\ 0 \in 0..MaxUpdates
    BY ReplayAssumption DEF TypeOK, Pcs
  <2>2. [Out EXCEPT !.pc = "check", !.todo = chain, !.replay = TRUE] \in Session
    BY <2>1, OutTyped, Edits
  <2> QED BY <1>1, <2>2, OnlyThis
<1>2. CASE Goto(s, "in")
  BY <1>2, GotoOnly DEF Pcs
<1> QED BY <1>1, <1>2 DEF Begin, Goto

\* A session that is done with the first image of its list.
LEMMA PastTyped ==
  ASSUME TypeOK, NEW s \in Sessions, session[s].todo # <<>>, NEW lines \in SUBSET Line
  PROVE  /\ Past(s, lines) \in Session
         /\ [Past(s, lines) EXCEPT !.pc = "play"] \in Session
         /\ Past(s, lines) = [session[s] EXCEPT
                !.todo = Tail(session[s].todo),
                !.by = [session[s].by EXCEPT ![Top(s)] = lines]]
         /\ \A j \in Images : Past(s, lines).by[j] = IF j = Top(s) THEN lines
                                                      ELSE session[s].by[j]
<1> DEFINE todo == Tail(session[s].todo)
           by == [session[s].by EXCEPT ![Top(s)] = lines]
<1>1. session[s] \in Session /\ todo \in Seq(Images) /\ Top(s) \in Images
  BY TodoTyped DEF TypeOK
<1>2. /\ by \in [Images -> SUBSET Line]
      /\ \A j \in Images : by[j] = IF j = Top(s) THEN lines ELSE session[s].by[j]
  BY <1>1 DEF Session
<1>3. Past(s, lines) = [session[s] EXCEPT !.todo = todo, !.by = by]
  BY DEF Past
<1> HIDE DEF todo, by
<1>4. /\ Past(s, lines) \in Session
      /\ Past(s, lines).by = by
  BY <1>1, <1>2, <1>3 DEF Session
<1>5. [Past(s, lines) EXCEPT !.pc = "play"] \in Session
  BY <1>4 DEF Session
<1> QED BY <1>2, <1>3, <1>4, <1>5 DEF todo, by

LEMMA PastParts ==
  ASSUME TypeOK, NEW s \in Sessions, session[s].todo # <<>>, NEW lines \in SUBSET Line,
         NEW new, new = Past(s, lines) \/ new = [Past(s, lines) EXCEPT !.pc = "play"]
  PROVE  /\ new.todo = Tail(session[s].todo) /\ new.changed = session[s].changed
         /\ \A j \in Images : new.by[j] = IF j = Top(s) THEN lines ELSE session[s].by[j]
<1>1. /\ Past(s, lines) \in Session /\ session[s] \in Session
      /\ \A j \in Images : Past(s, lines).by[j] = IF j = Top(s) THEN lines
                                                   ELSE session[s].by[j]
  BY PastTyped DEF TypeOK
<1>2. /\ Past(s, lines).todo = Tail(session[s].todo)
      /\ Past(s, lines).changed = session[s].changed
  BY <1>1 DEF Past, Session
<1>3. /\ new.todo = Past(s, lines).todo /\ new.changed = Past(s, lines).changed
      /\ new.by = Past(s, lines).by
  BY <1>1 DEF Session
<1> QED BY <1>1, <1>2, <1>3

LEMMA CheckOnly ==
  ASSUME TypeOK, NEW s \in Sessions, CheckImage(s)
  PROVE  /\ Top(s) \in Images
         /\ IF Unchanged(Top(s))
            THEN Only(s, Past(s, saved[Top(s)].lines))
            ELSE Only(s, [session[s] EXCEPT !.pc = "digest"])
<1>1. Top(s) \in Images /\ session[s].todo # <<>>
  BY TodoTyped DEF CheckImage
<1>2. CASE Unchanged(Top(s))
  <2>1. saved[Top(s)].lines \in SUBSET Line
    BY <1>1 DEF TypeOK, Digests
  <2>2. Past(s, saved[Top(s)].lines) \in Session
    BY <1>1, <2>1, PastTyped
  <2>3. session' = [session EXCEPT ![s] = Past(s, saved[Top(s)].lines)]
    BY <1>2 DEF CheckImage
  <2> QED BY <1>1, <1>2, <2>2, <2>3, OnlyThis
<1>3. CASE ~Unchanged(Top(s))
  BY <1>1, <1>3, GotoOnly DEF CheckImage, Pcs
<1> QED BY <1>2, <1>3

LEMMA WriteMarks ==
  ASSUME TypeOK, NEW s \in Sessions, Top(s) \in Images, NEW new \in Session,
         NEW lines \in SUBSET Lines(Top(s), content[Top(s)]), WriteDigest(s, lines, new)
  PROVE  Marks(s, new)
<1> DEFINE next1(r) == IF r = s THEN new
                       ELSE IF Running(r) /\ Top(r) = Top(s)
                       THEN [session[r] EXCEPT !.over = TRUE]
                       ELSE session[r]
           d == [of |-> content[Top(s)], lines |-> lines]
<1>1. session' = [r \in Sessions |-> next1(r)] /\ tmp' = [tmp EXCEPT ![Top(s)] = d]
  BY DEF WriteDigest, Running
<1>2. \A r \in Sessions : next1(r) \in Session
  <2> SUFFICES ASSUME NEW r \in Sessions PROVE next1(r) \in Session
    OBVIOUS
  <2>1. session[r] \in Session
    BY DEF TypeOK
  <2>2. [session[r] EXCEPT !.over = TRUE] \in Session
    BY <2>1 DEF Session
  <2> QED BY <2>1, <2>2
<1>3. d \in Digests /\ d.of = content[Top(s)] /\ d.lines = lines
  <2>1. content[Top(s)] \in 0..MaxUpdates
    BY DEF TypeOK
  <2>2. lines \in SUBSET Line
    BY <2>1, LinesTyped
  <2> QED BY <2>1, <2>2 DEF Digests
<1> HIDE DEF next1, d
<1>4. session' \in [Sessions -> Session] /\ \A r \in Sessions : session'[r] = next1(r)
  BY <1>1, <1>2
<1>5. /\ tmp' \in [Images -> Digests] /\ tmp'[Top(s)] = d
      /\ \A i : i # Top(s) => tmp'[i] = tmp[i]
  BY <1>1, <1>3 DEF TypeOK
<1>6. \A i \in Images :
           \/ tmp'[i] = tmp[i]
           \/ tmp'[i].of = content[i] /\ tmp'[i].lines \subseteq Lines(i, content[i])
  BY <1>3, <1>5
<1>7. session'[s] = new
  BY <1>4 DEF next1
<1>8. \A r \in Sessions \ {s} :
           \/ /\ session'[r] = session[r]
              /\ Running(r) => tmp'[Top(r)] = tmp[Top(r)]
           \/ Running(r) /\ session'[r] = [session[r] EXCEPT !.over = TRUE]
  BY <1>4, <1>5 DEF next1
<1> QED BY <1>4, <1>5, <1>6, <1>7, <1>8 DEF Marks

\* One that leaves the digests alone marks nobody.
LEMMA OnlyMarks ==
  ASSUME TypeOK, NEW s \in Sessions, NEW new \in Session, Only(s, new), tmp' = tmp
  PROVE  Marks(s, new)
  BY DEF Marks, Only, TypeOK

LEMMA TakeMarks ==
  ASSUME TypeOK, SessionInv, NEW s \in Sessions, TakeDigest(s)
  PROVE  Marks(s, [session[s] EXCEPT !.pc = "play"])
<1> DEFINE play == [session[s] EXCEPT !.pc = "play"]
           all == Lines(Top(s), content[Top(s)])
<1>1. session[s].todo # <<>>
  BY DEF TakeDigest, SessionInv, Sane, In
<1>2. Top(s) \in Images
  BY <1>1, TodoTyped
<1>3. play \in Session
  <2>1. session[s] \in Session
    BY DEF TypeOK
  <2> QED BY <2>1 DEF Session
<1>4. CASE WriteDigest(s, all, play)
  BY <1>2, <1>3, <1>4, WriteMarks
<1>5. CASE \E lines \in SUBSET all : WriteDigest(s, lines, play)
  BY <1>2, <1>3, <1>5, WriteMarks
<1>6. CASE Goto(s, "play") /\ UNCHANGED tmp
  <2>1. Only(s, play)
    BY <1>6, GotoOnly DEF Pcs
  <2>2. tmp' = tmp
    BY <1>6
  <2>3. PICK new \in Session : new = play
    BY <1>3
  <2>4. Only(s, new)
    BY <2>1, <2>3
  <2> HIDE DEF play
  <2>5. Marks(s, new)
    BY <2>2, <2>4, OnlyMarks
  <2> QED BY <2>3, <2>5 DEF play
<1> QED BY <1>4, <1>5, <1>6 DEF TakeDigest

LEMMA FailsMarks ==
  ASSUME TypeOK, SessionInv, NEW s \in Sessions, Leave(s) \/ SessionFails(s)
  PROVE  Marks(s, Out)
<1>1. CASE session' = [session EXCEPT ![s] = Out] /\ UNCHANGED tmp
  BY <1>1, OutTyped, OnlyThis, OnlyMarks
<1>2. CASE /\ In(s, "digest")
           /\ \E lines \in SUBSET Lines(Top(s), content[Top(s)]) : WriteDigest(s, lines, Out)
  <2>1. session[s].todo # <<>>
    BY <1>2 DEF SessionInv, Sane, In
  <2>2. Top(s) \in Images
    BY <2>1, TodoTyped
  <2> QED BY <1>2, <2>2, OutTyped, WriteMarks
<1> QED BY <1>1, <1>2 DEF Leave, SessionFails

LEMMA PlayOnly ==
  ASSUME TypeOK, NEW s \in Sessions, Play(s)
  PROVE  /\ Top(s) \in Images
         /\ Only(s, [session[s] EXCEPT !.pc = "playing", !.over = FALSE,
                                       !.with = content[Top(s)]])
<1>1. Top(s) \in Images
  BY TodoTyped DEF Play
<1>2. /\ session[s] \in Session /\ <<>> \in Seq(Images)
      /\ "playing" \in Pcs /\ content[Top(s)] \in 0..MaxUpdates
  BY <1>1 DEF TypeOK, Pcs
<1>3. [session[s] EXCEPT !.pc = "playing", !.over = FALSE, !.with = content[Top(s)]] \in Session
  BY <1>2, Edits
<1>4. session' = [session EXCEPT ![s] = [session[s] EXCEPT !.pc = "playing", !.over = FALSE,
                                                         !.with = content[Top(s)]]]
  BY DEF Play
<1> QED BY <1>1, <1>3, <1>4, OnlyThis

LEMMA MoveOnly ==
  ASSUME TypeOK, SessionInv, NEW s \in Sessions, MoveDigest(s)
  PROVE  /\ Top(s) \in Images
         /\ IF tmp[Top(s)] = NoDigest
            THEN Only(s, Out)
            ELSE Only(s, [Past(s, Lines(Top(s), session[s].with)) EXCEPT !.pc = "play"])
<1>1. session[s].todo # <<>>
  BY DEF MoveDigest, SessionInv, Sane, In
<1>2. Top(s) \in Images
  BY <1>1, TodoTyped
<1>3. CASE tmp[Top(s)] = NoDigest
  <2>1. session' = [session EXCEPT ![s] = Out]
    BY <1>3 DEF MoveDigest
  <2> QED BY <1>2, <1>3, <2>1, OutTyped, OnlyThis
<1>4. CASE tmp[Top(s)] # NoDigest
  <2>1. session' = [session EXCEPT ![s] =
                      [Past(s, Lines(Top(s), session[s].with)) EXCEPT !.pc = "play"]]
    BY <1>4 DEF MoveDigest
  <2>2. Lines(Top(s), session[s].with) \in SUBSET Line
    <3>1. session[s].with \in 0..MaxUpdates
      BY DEF TypeOK, Session
    <3> QED BY <1>2, <3>1, LinesTyped
  <2>3. [Past(s, Lines(Top(s), session[s].with)) EXCEPT !.pc = "play"] \in Session
    BY <1>1, <2>2, PastTyped
  <2> QED BY <1>2, <1>4, <2>1, <2>3, OnlyThis
<1> QED BY <1>3, <1>4

LEMMA UpdateOnly ==
  ASSUME TypeOK, NEW i \in Images, UpdateImage(i)
  PROVE  /\ session' \in [Sessions -> Session]
         /\ \A r \in Sessions :
                session'[r] = [session[r] EXCEPT !.changed = (session[r].pc # "out")]
<1>1. \A r \in Sessions : [session[r] EXCEPT !.changed = (session[r].pc # "out")] \in Session
  <2> SUFFICES ASSUME NEW r \in Sessions
               PROVE  [session[r] EXCEPT !.changed = (session[r].pc # "out")] \in Session
    OBVIOUS
  <2> DEFINE b == session[r].pc # "out"
  <2>1. /\ session[r] \in Session /\ <<>> \in Seq(Images)
        /\ 0 \in 0..MaxUpdates /\ "in" \in Pcs /\ b \in BOOLEAN
    BY ReplayAssumption DEF TypeOK, Pcs
  <2> HIDE DEF b
  <2>2. [session[r] EXCEPT !.changed = b] \in Session
    BY <2>1, Edits
  <2> QED BY <2>2 DEF b
<1>2. session' = [r \in Sessions |-> [session[r] EXCEPT !.changed = (session[r].pc # "out")]]
  BY DEF UpdateImage
<1> QED BY <1>1, <1>2

-----------------------------------------------------------------------------
(***************************************************************************)
(* Types                                                                   *)
(***************************************************************************)
LEMMA InitTyped == Init => TypeOK
<1>1. NoDigest \in Digests
  BY DEF NoDigest, Digests
<1> QED BY <1>1, OutTyped, ReplayAssumption DEF Init, TypeOK

LEMMA NextTyped == TypeOK /\ SessionInv /\ ChainInv /\ [Next]_vars => TypeOK'
<1> SUFFICES ASSUME TypeOK, SessionInv, ChainInv, [Next]_vars PROVE TypeOK'
  OBVIOUS
<1>1. CASE Start
  BY <1>1, ReplayAssumption DEF Start, TypeOK, images, ghosts
<1>2. CASE ResolveParent
  <2>1. next \in Images
    BY <1>2 DEF ResolveParent, ChainInv
  <2>2. /\ layout.parent[next] \in Images \cup {NoImage}
        /\ Linked(next) \in Seq(Images)
    BY <2>1, ReplayAssumption DEF TypeOK, Linked
  <2> QED BY <1>2, <2>1, <2>2 DEF ResolveParent, TypeOK, images, ghosts
<1>3. CASE ChainLoops
  BY <1>3 DEF ChainLoops, TypeOK, images, ghosts
<1>4. CASE Stop
  BY <1>4, OutTyped, ReplayAssumption DEF Stop, TypeOK, images, ghosts
<1>5. ASSUME NEW s \in Sessions, Begin(s) PROVE TypeOK'
  BY <1>5, BeginOnly DEF Begin, Only, TypeOK, images, boot, ghosts
<1>6. ASSUME NEW s \in Sessions, CheckImage(s) PROVE TypeOK'
  BY <1>6, CheckOnly DEF CheckImage, Only, TypeOK, images, boot, ghosts
<1>7. ASSUME NEW s \in Sessions, TakeDigest(s) PROVE TypeOK'
  <2>1. session' \in [Sessions -> Session] /\ tmp' \in [Images -> Digests]
    BY <1>7, TakeMarks DEF Marks
  <2>2. faults' \in 0..MaxFaults
    BY <1>7, ReplayAssumption DEF TakeDigest, TypeOK
  <2> QED BY <1>7, <2>1, <2>2 DEF TakeDigest, TypeOK, images, boot, ghosts
<1>8. ASSUME NEW s \in Sessions, Play(s) PROVE TypeOK'
  BY <1>8, PlayOnly DEF Play, Only, TypeOK, images, boot, ghosts
<1>9. ASSUME NEW s \in Sessions, PlayEnds(s) PROVE TypeOK'
  <2>1. Top(s) \in Images
    BY <1>9, TodoTyped DEF PlayEnds, SessionInv, Sane, In
  <2>2. session[s].with \in 0..MaxUpdates
    BY DEF TypeOK, Session
  <2>3. ran' \in [Images -> {None} \cup 0..MaxUpdates]
    BY <1>9, <2>1, <2>2 DEF PlayEnds, TypeOK
  <2>4. stale' \in SUBSET Images
    <3>1. \A n \in 1..Len(chain) : chain[n] \in Images
      BY DEF TypeOK
    <3> QED BY <1>9, <3>1 DEF PlayEnds, TypeOK
  <2>5. session' \in [Sessions -> Session]
    BY <1>9, GotoOnly DEF PlayEnds, Only, Pcs
  <2> QED BY <1>9, <2>3, <2>4, <2>5 DEF PlayEnds, TypeOK, images, boot
<1>10. ASSUME NEW s \in Sessions, MoveDigest(s) PROVE TypeOK'
  <2>1. Top(s) \in Images /\ session' \in [Sessions -> Session]
    BY <1>10, MoveOnly DEF Only
  <2>2. /\ saved' \in [Images -> Digests]
        /\ tmp' \in [Images -> Digests]
        /\ mixed' \in SUBSET Images
    <3>1. NoDigest \in Digests
      BY DEF NoDigest, Digests
    <3> QED BY <1>10, <2>1, <3>1 DEF MoveDigest, TypeOK
  <2> QED BY <1>10, <2>1, <2>2 DEF MoveDigest, TypeOK, images, boot
<1>11. ASSUME NEW s \in Sessions, Enter(s) PROVE TypeOK'
  BY <1>11, GotoOnly DEF Enter, Only, Pcs, TypeOK, images, boot, ghosts
<1>12. ASSUME NEW s \in Sessions, Leave(s) PROVE TypeOK'
  BY <1>12, OutTyped, OnlyThis DEF Leave, Only, TypeOK, images, boot, ghosts
<1>13. ASSUME NEW s \in Sessions, SessionFails(s) PROVE TypeOK'
  <2>1. session' \in [Sessions -> Session] /\ tmp' \in [Images -> Digests]
    BY <1>13, FailsMarks DEF Marks
  <2>2. faults' \in 0..MaxFaults
    BY <1>13, ReplayAssumption DEF SessionFails, TypeOK
  <2> QED BY <1>13, <2>1, <2>2 DEF SessionFails, TypeOK, images, boot, ghosts
<1>14. ASSUME NEW i \in Images, UpdateImage(i) PROVE TypeOK'
  <2>1. content' \in [Images -> 0..MaxUpdates]
    BY <1>14, ReplayAssumption DEF UpdateImage, TypeOK
  <2> QED BY <1>14, <2>1, UpdateOnly DEF UpdateImage, TypeOK, boot
<1>15. CASE UNCHANGED vars
  BY <1>15 DEF vars, images, boot, ghosts, TypeOK
<1> QED BY <1>1, <1>2, <1>3, <1>4, <1>5, <1>6, <1>7, <1>8, <1>9, <1>10, <1>11,
           <1>12, <1>13, <1>14, <1>15 DEF Next, Setup

-----------------------------------------------------------------------------
(***************************************************************************)
(* The sessions and the chain                                              *)
(***************************************************************************)
LEMMA MarkedSane ==
  ASSUME TypeOK, SessionInv, NEW s \in Sessions, NEW new, Marks(s, new), phase' = phase,
         NEW t \in Sessions \ {s}
  PROVE  Sane(t)'
<1>1. Sane(t) /\ session[t] \in Session
  BY DEF SessionInv, TypeOK
<1>2. CASE session'[t] = session[t]
  BY <1>1, <1>2 DEF Sane, In
<1>3. CASE Running(t) /\ session'[t] = [session[t] EXCEPT !.over = TRUE]
  <2>1. /\ session'[t].pc = session[t].pc /\ session'[t].todo = session[t].todo
        /\ session'[t].replay = session[t].replay
    BY <1>1, <1>3 DEF Session
  <2> QED BY <1>1, <1>3, <2>1 DEF Sane, In, Running
<1> QED BY <1>2, <1>3 DEF Marks

LEMMA SessionStep == TypeOK /\ SessionInv /\ [Next]_vars => SessionInv'
<1> SUFFICES ASSUME TypeOK, SessionInv, [Next]_vars, NEW t \in Sessions
             PROVE  Sane(t)'
  BY DEF SessionInv
<1>1. Sane(t) /\ session[t] \in Session
  BY DEF SessionInv, TypeOK
<1>2. CASE Start \/ ResolveParent \/ ChainLoops
  BY <1>1, <1>2 DEF Start, ResolveParent, ChainLoops, Sane, In
<1>3. CASE Stop
  BY <1>3 DEF Stop, Sane, In, Out
<1>4. ASSUME NEW s \in Sessions, session'[t] = session[t], phase' = phase
      PROVE  Sane(t)'
  BY <1>1, <1>4 DEF Sane, In
<1>5. ASSUME NEW s \in Sessions, Begin(s) PROVE Sane(t)'
  <2>1. CASE Only(s, [Out EXCEPT !.pc = "check", !.todo = chain, !.replay = TRUE])
    BY <1>1, <1>5, <2>1 DEF Only, Begin, boot, Sane, In, Out
  <2>2. CASE Only(s, [session[s] EXCEPT !.pc = "in"])
    <3>1. session[s] = Out
      BY <1>5 DEF Begin, SessionInv, Sane
    <3> QED BY <1>1, <1>5, <2>2, <3>1 DEF Only, Begin, boot, Sane, In, Out
  <2> QED BY <1>5, <2>1, <2>2, BeginOnly
<1>6. ASSUME NEW s \in Sessions, CheckImage(s) PROVE Sane(t)'
  <2>1. session[s] \in Session /\ Sane(s)
    BY DEF TypeOK, SessionInv
  <2>2. CASE Unchanged(Top(s))
    <3>1. Only(s, Past(s, saved[Top(s)].lines))
      BY <1>6, <2>2, CheckOnly
    <3>2. phase' = phase /\ In(s, "check")
      BY <1>6 DEF CheckImage, boot
    <3> QED BY <1>1, <2>1, <3>1, <3>2 DEF Only, Sane, In, Session, Past
  <2>3. CASE ~Unchanged(Top(s))
    <3>1. Only(s, [session[s] EXCEPT !.pc = "digest"])
      BY <1>6, <2>3, CheckOnly
    <3>2. phase' = phase /\ In(s, "check") /\ session[s].todo # <<>>
      BY <1>6 DEF CheckImage, boot
    <3> QED BY <1>1, <2>1, <3>1, <3>2 DEF Only, Sane, In, Session
  <2> QED BY <2>2, <2>3
<1>7. ASSUME NEW s \in Sessions, TakeDigest(s) PROVE Sane(t)'
  <2>1. session[s] \in Session /\ phase' = phase
    BY <1>7 DEF TypeOK, TakeDigest, boot
  <2>2. Marks(s, [session[s] EXCEPT !.pc = "play"])
    BY <1>7, TakeMarks
  <2>3. CASE t = s
    BY <1>1, <1>7, <2>1, <2>2, <2>3 DEF Marks, TakeDigest, Sane, In, Session
  <2>4. CASE t # s
    BY <2>1, <2>2, <2>4, MarkedSane
  <2> QED BY <2>3, <2>4
<1>8. ASSUME NEW s \in Sessions, Play(s) PROVE Sane(t)'
  <2>1. session[s] \in Session /\ Sane(s)
    BY DEF TypeOK, SessionInv
  <2> QED BY <1>1, <1>8, <2>1, PlayOnly DEF Play, Only, boot, Sane, In, Session
<1>9. ASSUME NEW s \in Sessions, PlayEnds(s) PROVE Sane(t)'
  <2>1. session[s] \in Session /\ Sane(s)
    BY DEF TypeOK, SessionInv
  <2>2. Only(s, [session[s] EXCEPT !.pc = "move"])
    BY <1>9, GotoOnly DEF PlayEnds, Pcs
  <2> QED BY <1>1, <1>9, <2>1, <2>2 DEF PlayEnds, Only, boot, Sane, In, Session
<1>10. ASSUME NEW s \in Sessions, MoveDigest(s) PROVE Sane(t)'
  <2>1. session[s] \in Session /\ Sane(s)
    BY DEF TypeOK, SessionInv
  <2>2. CASE Only(s, Out)
    BY <1>1, <1>10, <2>2 DEF MoveDigest, Only, boot, Sane, In, Out
  <2>3. CASE Only(s, [Past(s, Lines(Top(s), session[s].with)) EXCEPT !.pc = "play"])
    BY <1>1, <1>10, <2>1, <2>3 DEF MoveDigest, Only, boot, Sane, In, Session, Past
  <2> QED BY <1>10, <2>2, <2>3, MoveOnly
<1>11. ASSUME NEW s \in Sessions, Enter(s) PROVE Sane(t)'
  <2>1. session[s] \in Session /\ Sane(s)
    BY DEF TypeOK, SessionInv
  <2>2. Only(s, [session[s] EXCEPT !.pc = "in"])
    BY <1>11, GotoOnly DEF Enter, Pcs
  <2> QED BY <1>1, <1>11, <2>1, <2>2 DEF Enter, Only, boot, Sane, In, Session
<1>12. ASSUME NEW s \in Sessions, Leave(s) \/ SessionFails(s) PROVE Sane(t)'
  <2>1. Marks(s, Out) /\ phase' = phase
    BY <1>12, FailsMarks DEF Leave, SessionFails, boot
  <2>2. CASE t = s
    BY <2>1, <2>2 DEF Marks, Sane, In, Out
  <2> QED BY <2>1, <2>2, MarkedSane
<1>13. ASSUME NEW i \in Images, UpdateImage(i) PROVE Sane(t)'
  <2>1. session'[t] = [session[t] EXCEPT !.changed = (session[t].pc # "out")]
    BY <1>13, UpdateOnly
  <2>2. CASE In(t, "out")
    <3>1. session[t] = Out /\ session'[t] = [Out EXCEPT !.changed = FALSE]
      BY <1>1, <2>1, <2>2 DEF Sane, In
    <3>2. session'[t] = Out
      BY <3>1 DEF Out
    <3> QED BY <3>2 DEF Sane, In, Out
  <2>3. CASE ~In(t, "out")
    BY <1>1, <1>13, <2>1, <2>3 DEF UpdateImage, boot, Sane, In, Session
  <2> QED BY <2>2, <2>3
<1>14. CASE UNCHANGED vars
  BY <1>1, <1>14 DEF vars, boot, Sane, In
<1> QED BY <1>2, <1>3, <1>5, <1>6, <1>7, <1>8, <1>9, <1>10, <1>11, <1>12, <1>13,
           <1>14 DEF Next, Setup

LEMMA ChainStep == TypeOK /\ ChainInv /\ [Next]_vars => ChainInv'
<1> SUFFICES ASSUME TypeOK, ChainInv, [Next]_vars PROVE ChainInv'
  OBVIOUS
<1>1. CASE Start
  BY <1>1, ReplayAssumption DEF Start, ChainInv
<1>2. CASE ResolveParent
  <2>1. next \in Images /\ chain \in Seq(Images)
    BY <1>2 DEF ResolveParent, ChainInv, TypeOK
  <2>2. CASE ~Opens(next)
    BY <1>2, <2>2 DEF ResolveParent, ChainInv
  <2>3. CASE Opens(next)
    <3>1. /\ chain' = <<next>> \o chain /\ next' = layout.parent[next]
          /\ layout' = layout
          /\ phase' = IF next' = NoImage THEN "up" ELSE "resolve"
      BY <1>2, <2>3 DEF ResolveParent, Linked, images
    <3>2. /\ Len(chain') = Len(chain) + 1 /\ chain'[1] = next /\ chain' # <<>>
          /\ \A n \in 2..Len(chain') : chain'[n] = chain[n - 1]
      BY <2>1, <3>1
    <3>3. ASSUME NEW n \in 2..Len(chain')
          PROVE  layout'.parent[chain'[n]] = chain'[n - 1]
      <4>1. CASE n = 2
        BY <1>2, <2>1, <3>1, <3>2, <3>3, <4>1 DEF ResolveParent, ChainInv
      <4>2. CASE n # 2
        <5>1. n - 1 \in 2..Len(chain) /\ n - 1 \in 2..Len(chain')
          BY <2>1, <3>2, <4>2
        <5> QED BY <1>2, <3>1, <3>2, <5>1 DEF ResolveParent, ChainInv
      <4> QED BY <4>1, <4>2
    <3>4. layout.parent[next] \in Images \cup {NoImage}
      BY <2>1, ReplayAssumption DEF TypeOK
    <3> QED BY <3>1, <3>2, <3>3, <3>4 DEF ChainInv
  <2> QED BY <2>2, <2>3
<1>3. CASE ChainLoops \/ Stop
  BY <1>3 DEF ChainLoops, Stop, ChainInv
<1>4. CASE UNCHANGED <<layout, boot>>
  BY <1>4 DEF boot, ChainInv
<1>5. ASSUME NEW s \in Sessions,
             Begin(s) \/ Setup(s) \/ Leave(s) \/ SessionFails(s)
      PROVE  UNCHANGED <<layout, boot>>
  BY <1>5 DEF Begin, Setup, CheckImage, TakeDigest, Play, PlayEnds, MoveDigest, Enter,
              Leave, SessionFails, images
<1>6. ASSUME NEW i \in Images, UpdateImage(i) PROVE UNCHANGED <<layout, boot>>
  BY <1>6 DEF UpdateImage
<1> QED BY <1>1, <1>2, <1>3, <1>4, <1>5, <1>6 DEF Next, vars, images

-----------------------------------------------------------------------------
(***************************************************************************)
(* Digests and playbooks                                                   *)
(***************************************************************************)
\* The end of a playbook: it has run with the files it was started with.
LEMMA PlayEndsRan ==
  ASSUME TypeOK, SessionInv, DigestInv, PlayInv, NEW s \in Sessions, PlayEnds(s)
  PROVE  /\ Top(s) \in Images
         /\ ran'[Top(s)] \in Nat
         /\ ran[Top(s)] <= ran'[Top(s)]
         /\ session[s].with <= ran'[Top(s)]
         /\ ran'[Top(s)] <= content[Top(s)]
         /\ \A i \in Images \ {Top(s)} : ran'[i] = ran[i]
<1>1. Top(s) \in Images
  BY TodoTyped DEF PlayEnds, SessionInv, Sane, In
<1>2. session[s].with \in Nat /\ ran[Top(s)] \in Nat \cup {-1}
  BY <1>1, ReplayAssumption DEF TypeOK, Session, None
<1>3. session[s].with <= content[Top(s)] /\ ran[Top(s)] <= content[Top(s)]
  BY <1>1 DEF PlayEnds, PlayInv, PlaysWith, Running, DigestInv, In
<1>4. ran' = [ran EXCEPT ![Top(s)] = IF ran[Top(s)] < session[s].with
                                    THEN session[s].with ELSE ran[Top(s)]]
  BY DEF PlayEnds
<1> QED BY <1>1, <1>2, <1>3, <1>4 DEF TypeOK

\* The digest that is saved is the one the session took,
\* or another's, but never one of newer files unless it was taken again.
LEMMA MoveSaved ==
  ASSUME TypeOK, SessionInv, DigestInv, PlayInv, NEW s \in Sessions, MoveDigest(s),
         tmp[Top(s)] # NoDigest
  PROVE  /\ Top(s) \in Images
         /\ saved'[Top(s)] = tmp[Top(s)]
         /\ tmp'[Top(s)] = NoDigest
         /\ \A i \in Images \ {Top(s)} : saved'[i] = saved[i] /\ tmp'[i] = tmp[i]
         /\ \A i \in Images \ {Top(s)} : i \in mixed' <=> i \in mixed
         /\ Top(s) \in mixed' <=> session[s].over
         /\ session[s].with \in Nat
         /\ session[s].with <= ran[Top(s)]
         /\ session[s].with <= content[Top(s)]
         /\ ~session[s].over => tmp[Top(s)].of <= session[s].with
         /\ ~session[s].changed => session[s].with = content[Top(s)]
<1>1. Top(s) \in Images
  BY TodoTyped DEF MoveDigest, SessionInv, Sane, In
<1>2. session[s].with \in Nat
  BY ReplayAssumption DEF TypeOK, Session
<1>3. PlaysWith(s) /\ Running(s) /\ In(s, "move")
  BY DEF PlayInv, MoveDigest, Running, In
<1>4. /\ saved' = [saved EXCEPT ![Top(s)] = tmp[Top(s)]]
      /\ tmp' = [tmp EXCEPT ![Top(s)] = NoDigest]
      /\ mixed' = IF session[s].over THEN mixed \cup {Top(s)} ELSE mixed \ {Top(s)}
  BY DEF MoveDigest
<1> QED BY <1>1, <1>2, <1>3, <1>4 DEF TypeOK, PlaysWith

LEMMA DigestStep ==
  TypeOK /\ SessionInv /\ DigestInv /\ PlayInv /\ [Next]_vars => DigestInv'
<1> SUFFICES ASSUME TypeOK, SessionInv, DigestInv, PlayInv, [Next]_vars, NEW i \in Images
             PROVE  /\ saved'[i].of <= content'[i]
                    /\ tmp'[i].of <= content'[i]
                    /\ ran'[i] <= content'[i]
                    /\ saved'[i].of # None => ran'[i] # None
  BY DEF DigestInv
<1>0. /\ content[i] \in Nat /\ saved[i].of \in Int /\ tmp[i].of \in Int
      /\ ran[i] \in Nat \cup {-1}
      /\ saved[i].of <= content[i] /\ tmp[i].of <= content[i] /\ ran[i] <= content[i]
      /\ saved[i].of # None => ran[i] # None
  <2>1. saved[i] \in Digests /\ tmp[i] \in Digests /\ content[i] \in 0..MaxUpdates
        /\ ran[i] \in {None} \cup 0..MaxUpdates
    BY DEF TypeOK
  <2> QED BY <2>1, ReplayAssumption DEF Digests, None, DigestInv
<1>1. CASE UNCHANGED <<content, saved, tmp, ran>>
  BY <1>0, <1>1
<1>2. ASSUME NEW s \in Sessions, TakeDigest(s)
      PROVE  UNCHANGED <<content, saved, ran>> /\ (tmp'[i] = tmp[i] \/ tmp'[i].of = content[i])
  BY <1>2, TakeMarks DEF TakeDigest, Marks, images, ghosts
<1>3. ASSUME NEW s \in Sessions, PlayEnds(s)
      PROVE  /\ UNCHANGED <<content, saved, tmp>>
             /\ ran'[i] <= content[i]
             /\ ran'[i] \in Nat \/ ran'[i] = ran[i]
  <2>1. CASE i = Top(s)
    BY <1>3, <2>1, PlayEndsRan DEF PlayEnds, images
  <2>2. CASE i # Top(s)
    BY <1>0, <1>3, <2>2, PlayEndsRan DEF PlayEnds, images
  <2> QED BY <2>1, <2>2
<1>4. ASSUME NEW s \in Sessions, MoveDigest(s)
      PROVE  /\ saved'[i].of <= content'[i]
             /\ tmp'[i].of <= content'[i]
             /\ ran'[i] <= content'[i]
             /\ saved'[i].of # None => ran'[i] # None
  <2>1. UNCHANGED <<content, ran>>
    BY <1>4 DEF MoveDigest, images
  <2>2. CASE tmp[Top(s)] = NoDigest
    BY <1>0, <1>4, <2>1, <2>2 DEF MoveDigest
  <2>3. CASE tmp[Top(s)] # NoDigest /\ i = Top(s)
    <3>1. /\ saved'[i] = tmp[i] /\ tmp'[i].of = -1
          /\ session[s].with \in Nat /\ session[s].with <= ran[i]
      BY <1>4, <2>3, MoveSaved DEF NoDigest, None
    <3> QED BY <1>0, <2>1, <3>1 DEF None
  <2>4. CASE tmp[Top(s)] # NoDigest /\ i # Top(s)
    BY <1>0, <1>4, <2>1, <2>4, MoveSaved
  <2> QED BY <2>2, <2>3, <2>4
<1>5. ASSUME NEW s \in Sessions, SessionFails(s)
      PROVE  UNCHANGED <<content, saved, ran>> /\ (tmp'[i] = tmp[i] \/ tmp'[i].of = content[i])
  BY <1>5, FailsMarks DEF SessionFails, Marks, images, ghosts
<1>6. ASSUME NEW j \in Images, UpdateImage(j)
      PROVE  UNCHANGED <<saved, tmp, ran>> /\ content'[i] \in {content[i], content[i] + 1}
  BY <1>6 DEF UpdateImage, TypeOK
<1>7. ASSUME NEW s \in Sessions, Begin(s) \/ CheckImage(s) \/ Play(s) \/ Enter(s) \/ Leave(s)
      PROVE  UNCHANGED <<content, saved, tmp, ran>>
  BY <1>7 DEF Begin, CheckImage, Play, Enter, Leave, images, ghosts
<1>8. CASE Start \/ ResolveParent \/ ChainLoops \/ Stop \/ UNCHANGED vars
  <2>1. UNCHANGED <<content, saved, tmp, ran>>
    BY <1>8 DEF Start, ResolveParent, ChainLoops, Stop, vars, images, ghosts
  <2> QED BY <1>1, <2>1
<1>9. ASSUME NEW s \in Sessions, Begin(s) \/ Setup(s) \/ Leave(s) \/ SessionFails(s)
      PROVE  /\ saved'[i].of <= content'[i]
             /\ tmp'[i].of <= content'[i]
             /\ ran'[i] <= content'[i]
             /\ saved'[i].of # None => ran'[i] # None
  <2>1. CASE TakeDigest(s)
    BY <1>0, <1>2, <2>1
  <2>2. CASE PlayEnds(s)
    BY <1>0, <1>3, <2>2 DEF None
  <2>3. CASE SessionFails(s)
    BY <1>0, <1>5, <2>3
  <2>4. CASE Begin(s) \/ CheckImage(s) \/ Play(s) \/ Enter(s) \/ Leave(s)
    BY <1>1, <1>7, <2>4
  <2> QED BY <1>4, <1>9, <2>1, <2>2, <2>3, <2>4 DEF Setup
<1>10. ASSUME NEW j \in Images, UpdateImage(j)
       PROVE  /\ saved'[i].of <= content'[i]
              /\ tmp'[i].of <= content'[i]
              /\ ran'[i] <= content'[i]
              /\ saved'[i].of # None => ran'[i] # None
  BY <1>0, <1>6, <1>10
<1> QED BY <1>8, <1>9, <1>10 DEF Next

LEMMA LinesStep ==
  TypeOK /\ SessionInv /\ LinesInv /\ [Next]_vars => LinesInv'
<1> SUFFICES ASSUME TypeOK, SessionInv, LinesInv, [Next]_vars, NEW i \in Images
             PROVE  Genuine(saved[i], i)' /\ Genuine(tmp[i], i)'
  BY DEF LinesInv
<1>1. Genuine(saved[i], i) /\ Genuine(tmp[i], i) /\ content[i] \in Nat
  BY ReplayAssumption DEF LinesInv, TypeOK
<1>2. CASE UNCHANGED <<layout, saved, tmp>>
  BY <1>1, <1>2 DEF Genuine, Lines
<1>3. CASE Start \/ ResolveParent \/ ChainLoops \/ Stop \/ UNCHANGED vars
  BY <1>2, <1>3 DEF Start, ResolveParent, ChainLoops, Stop, vars, images
<1>4. ASSUME NEW s \in Sessions,
             Begin(s) \/ CheckImage(s) \/ Play(s) \/ PlayEnds(s) \/ Enter(s)
      PROVE  UNCHANGED <<layout, saved, tmp>>
  BY <1>4 DEF Begin, CheckImage, Play, PlayEnds, Enter, images
<1>5. ASSUME NEW s \in Sessions, TakeDigest(s) \/ Leave(s) \/ SessionFails(s)
      PROVE  Genuine(saved[i], i)' /\ Genuine(tmp[i], i)'
  <2>1. UNCHANGED <<layout, saved>>
    BY <1>5 DEF TakeDigest, Leave, SessionFails, images
  <2>2. tmp'[i] = tmp[i] \/ (tmp'[i].of = content[i] /\ tmp'[i].lines \subseteq Lines(i, content[i]))
    BY <1>5, TakeMarks, FailsMarks DEF Marks
  <2> QED BY <1>1, <2>1, <2>2 DEF Genuine, Lines, None
<1>6. ASSUME NEW s \in Sessions, MoveDigest(s)
      PROVE  Genuine(saved[i], i)' /\ Genuine(tmp[i], i)'
  <2>1. layout' = layout
    BY <1>6 DEF MoveDigest, images
  <2>2. saved'[i] \in {saved[i], tmp[i]} /\ tmp'[i] \in {tmp[i], NoDigest}
    BY <1>6 DEF MoveDigest, TypeOK
  <2> QED BY <1>1, <2>1, <2>2 DEF Genuine, Lines, NoDigest
<1>7. ASSUME NEW j \in Images, UpdateImage(j) PROVE UNCHANGED <<layout, saved, tmp>>
  BY <1>7 DEF UpdateImage
<1> QED BY <1>2, <1>3, <1>4, <1>5, <1>6, <1>7 DEF Next, Setup

LEMMA DigestsAreInts ==
  /\ \A d \in Digests : d.of \in Int
  /\ {None} \cup 0..MaxUpdates \subseteq Int /\ 0..MaxUpdates \subseteq Nat
  BY ReplayAssumption DEF Digests, None

\* A session that a step leaves alone goes on as before, if no digest of its
\* image becomes newer than it was, and no playbook has run with older files.
LEMMA PlaysOn ==
  ASSUME TypeOK, PlayInv, SessionInv, NEW t \in Sessions,
         session'[t] = session[t], content' = content,
         \A i \in Images :
             /\ ran'[i] \in Int
             /\ saved'[i] \in {saved[i], tmp[i]}
             /\ ran[i] <= ran'[i],
         Running(t) => tmp'[Top(t)] \in {tmp[Top(t)], NoDigest}
  PROVE  PlaysWith(t)'
<1> SUFFICES ASSUME Running(t)'
             PROVE  PlaysWith(t)'
  BY DEF PlaysWith
<1>1. Running(t) /\ Top(t)' = Top(t) /\ PlaysWith(t) /\ (In(t, "move")' => In(t, "move"))
  BY DEF Running, Top, PlayInv, In
<1>2. Top(t) \in Images
  BY <1>1, TodoTyped DEF SessionInv, Sane, Running
<1>3. session[t].with \in Nat /\ ran[Top(t)] \in Int
  <2>1. session[t] \in Session
    BY DEF TypeOK
  <2>2. session[t].with \in Nat
    BY <2>1, DigestsAreInts DEF Session
  <2> QED BY <1>2, <2>2, DigestsAreInts DEF TypeOK
<1>4. NoDigest.of <= session[t].with
  BY <1>3 DEF NoDigest, None
<1> QED BY <1>1, <1>2, <1>3, <1>4 DEF PlaysWith

\* So does one whose digest a step makes anew, as it is marked.
LEMMA MarkedPlaysOn ==
  ASSUME TypeOK, PlayInv, SessionInv, NEW s \in Sessions, NEW new, Marks(s, new),
         UNCHANGED <<content, saved, ran>>, NEW t \in Sessions \ {s}
  PROVE  PlaysWith(t)'
<1>1. \A i \in Images : ran[i] \in Int
  BY DigestsAreInts DEF TypeOK
<1>2. CASE session'[t] = session[t] /\ (Running(t) => tmp'[Top(t)] = tmp[Top(t)])
  BY <1>1, <1>2, PlaysOn
<1>3. CASE Running(t) /\ session'[t] = [session[t] EXCEPT !.over = TRUE]
  <2>1. PlaysWith(t) /\ session[t] \in Session
    BY DEF PlayInv, TypeOK
  <2> QED BY <1>3, <2>1 DEF PlaysWith, Running, Top, In, Session
<1> QED BY <1>2, <1>3 DEF Marks

LEMMA PlayStep ==
  TypeOK /\ TypeOK' /\ SessionInv /\ DigestInv /\ PlayInv /\ [Next]_vars => PlayInv'
<1> SUFFICES ASSUME TypeOK, TypeOK', SessionInv, DigestInv, PlayInv, [Next]_vars,
                    NEW t \in Sessions
             PROVE  PlaysWith(t)'
  BY DEF PlayInv
<1>0. /\ \A i \in Images : content[i] \in Nat /\ ran[i] \in Int /\ ran'[i] \in Int
      /\ session[t] \in Session
  BY DigestsAreInts DEF TypeOK
<1>1. CASE UNCHANGED <<content, saved, tmp, ran>> /\ session'[t] = session[t]
  BY <1>0, <1>1, PlaysOn
<1>2. ASSUME session'[t].pc \notin {"playing", "move"} PROVE PlaysWith(t)'
  BY <1>2 DEF PlaysWith, Running
<1>3. CASE Start \/ ResolveParent \/ ChainLoops \/ UNCHANGED vars
  BY <1>1, <1>3 DEF Start, ResolveParent, ChainLoops, vars, images, ghosts
<1>4. CASE Stop
  BY <1>2, <1>4 DEF Stop, Out
<1>5. ASSUME NEW s \in Sessions, Begin(s) PROVE PlaysWith(t)'
  <2>1. UNCHANGED <<content, saved, tmp, ran>>
    BY <1>5 DEF Begin, images, ghosts
  <2>2. CASE Only(s, [Out EXCEPT !.pc = "check", !.todo = chain, !.replay = TRUE])
    BY <1>1, <1>2, <2>1, <2>2 DEF Only, Out
  <2>3. CASE Only(s, [session[s] EXCEPT !.pc = "in"])
    <3>1. session[s] \in Session
      BY DEF TypeOK
    <3> QED BY <1>1, <1>2, <2>1, <2>3, <3>1 DEF Only, Session
  <2> QED BY <1>5, <2>2, <2>3, BeginOnly
<1>6. ASSUME NEW s \in Sessions, CheckImage(s) PROVE PlaysWith(t)'
  <2>1. UNCHANGED <<content, saved, tmp, ran>> /\ session[s].pc = "check"
    BY <1>6 DEF CheckImage, In, images, ghosts
  <2>2. session[s] \in Session
    BY DEF TypeOK
  <2>3. CASE Only(s, Past(s, saved[Top(s)].lines))
    BY <1>1, <1>2, <2>1, <2>2, <2>3 DEF Only, Session, Past
  <2>4. CASE Only(s, [session[s] EXCEPT !.pc = "digest"])
    BY <1>1, <1>2, <2>1, <2>2, <2>4 DEF Only, Session
  <2> QED BY <1>6, <2>3, <2>4, CheckOnly
<1>7. ASSUME NEW s \in Sessions, TakeDigest(s) PROVE PlaysWith(t)'
  <2>1. UNCHANGED <<content, saved, ran>> /\ session[s] \in Session
    BY <1>7 DEF TakeDigest, TypeOK, images, ghosts
  <2>2. Marks(s, [session[s] EXCEPT !.pc = "play"])
    BY <1>7, TakeMarks
  <2>3. CASE t = s
    BY <1>2, <2>1, <2>2, <2>3 DEF Marks, Session
  <2>4. CASE t # s
    BY <2>1, <2>2, <2>4, MarkedPlaysOn
  <2> QED BY <2>3, <2>4
<1>8. ASSUME NEW s \in Sessions, Play(s) PROVE PlaysWith(t)'
  <2>1. UNCHANGED <<content, saved, tmp, ran>>
    BY <1>8 DEF Play, images, ghosts
  <2>2. CASE t = s
    <3>1. /\ Top(s) \in Images
          /\ session'[s] = [session[s] EXCEPT !.pc = "playing", !.over = FALSE,
                                              !.with = content[Top(s)]]
      BY <1>8, PlayOnly DEF Only
    <3>2. /\ session'[s].with = content[Top(s)] /\ Top(s)' = Top(s)
          /\ session'[s].pc = "playing"
      BY <1>0, <2>2, <3>1 DEF Session, Top
    <3>3. saved[Top(s)].of <= content[Top(s)] /\ tmp[Top(s)].of <= content[Top(s)]
      BY <3>1 DEF DigestInv
    <3> QED BY <1>0, <2>1, <2>2, <3>1, <3>2, <3>3 DEF PlaysWith, In
  <2>3. CASE t # s
    BY <1>1, <1>8, <2>1, <2>3, PlayOnly DEF Only
  <2> QED BY <2>2, <2>3
<1>9. ASSUME NEW s \in Sessions, PlayEnds(s) PROVE PlaysWith(t)'
  <2>1. UNCHANGED <<content, saved, tmp>>
    BY <1>9 DEF PlayEnds, images
  <2>2. Only(s, [session[s] EXCEPT !.pc = "move"])
    BY <1>9, GotoOnly DEF PlayEnds, Pcs
  <2>3. CASE t = s
    <3>1. PlaysWith(t) /\ Running(t)
      BY <1>9, <2>3 DEF PlayInv, PlayEnds, Running, In
    <3>2. session'[t] = [session[t] EXCEPT !.pc = "move"]
      BY <2>2, <2>3 DEF Only
    <3>3. session[t].with <= ran'[Top(t)]
      BY <1>9, <2>3, PlayEndsRan
    <3> QED BY <1>0, <2>1, <3>1, <3>2, <3>3 DEF PlaysWith, Running, Top, In, Session
  <2>4. CASE t # s
    <3>1. session'[t] = session[t]
      BY <2>2, <2>4 DEF Only
    <3>2. \A i \in Images : ran[i] <= ran'[i]
      BY <1>0, <1>9, PlayEndsRan
    <3> QED BY <1>0, <2>1, <3>1, <3>2, PlaysOn
  <2> QED BY <2>3, <2>4
<1>10. ASSUME NEW s \in Sessions, MoveDigest(s) PROVE PlaysWith(t)'
  <2>1. UNCHANGED <<content, ran>> /\ session[s] \in Session
    BY <1>10 DEF MoveDigest, images, TypeOK
  <2>2. CASE tmp[Top(s)] = NoDigest
    <3>1. UNCHANGED <<saved, tmp>> /\ Only(s, Out)
      BY <1>10, <2>2, MoveOnly DEF MoveDigest
    <3> QED BY <1>1, <1>2, <2>1, <3>1 DEF Only, Out
  <2>3. CASE tmp[Top(s)] # NoDigest
    <3>1. Only(s, [Past(s, Lines(Top(s), session[s].with)) EXCEPT !.pc = "play"])
      BY <1>10, <2>3, MoveOnly
    <3>2. CASE t = s
      BY <1>2, <2>1, <3>1, <3>2 DEF Only, Session, Past
    <3>3. CASE t # s
      <4>1. session'[t] = session[t]
        BY <3>1, <3>3 DEF Only
      <4>2. \A i \in Images : saved'[i] \in {saved[i], tmp[i]} /\ tmp'[i] \in {tmp[i], NoDigest}
        BY <1>10, <2>3, MoveSaved
      <4>3. Running(t) => Top(t) \in Images
        BY TodoTyped DEF SessionInv, Sane, Running
      <4> QED BY <1>0, <2>1, <4>1, <4>2, <4>3, PlaysOn
    <3> QED BY <3>2, <3>3
  <2> QED BY <2>2, <2>3
<1>11. ASSUME NEW s \in Sessions, Enter(s) PROVE PlaysWith(t)'
  <2>1. UNCHANGED <<content, saved, tmp, ran>> /\ session[s] \in Session
    BY <1>11 DEF Enter, images, ghosts, TypeOK
  <2>2. Only(s, [session[s] EXCEPT !.pc = "in"])
    BY <1>11, GotoOnly DEF Enter, Pcs
  <2> QED BY <1>1, <1>2, <2>1, <2>2 DEF Only, Session
<1>12. ASSUME NEW s \in Sessions, Leave(s) \/ SessionFails(s) PROVE PlaysWith(t)'
  <2>1. Marks(s, Out) /\ UNCHANGED <<content, saved, ran>>
    BY <1>12, FailsMarks DEF Leave, SessionFails, images, ghosts
  <2>2. CASE t = s
    BY <1>2, <2>1, <2>2 DEF Marks, Out
  <2>3. CASE t # s
    BY <2>1, <2>3, MarkedPlaysOn
  <2> QED BY <2>2, <2>3
<1>13. ASSUME NEW i \in Images, UpdateImage(i) PROVE PlaysWith(t)'
  <2>1. session'[t] = [session[t] EXCEPT !.changed = (session[t].pc # "out")]
    BY <1>13, UpdateOnly
  <2>2. CASE ~Running(t)
    BY <1>0, <1>2, <2>1, <2>2 DEF Running, Session
  <2>3. CASE Running(t)
    <3>1. Top(t) \in Images /\ PlaysWith(t)
      BY <2>3, TodoTyped DEF SessionInv, Sane, Running, PlayInv
    <3>2. /\ session'[t].changed /\ Top(t)' = Top(t)
          /\ session'[t].with = session[t].with /\ session'[t].pc = session[t].pc
          /\ session'[t].over = session[t].over
      BY <1>0, <2>1, <2>3 DEF Running, Top, Session
    <3>3. /\ UNCHANGED <<saved, tmp, ran>>
          /\ content'[Top(t)] \in {content[Top(t)], content[Top(t)] + 1}
      BY <1>13, <3>1 DEF UpdateImage, TypeOK
    <3>4. session[t].with \in Nat
      BY ReplayAssumption DEF TypeOK, Session
    <3> QED BY <1>0, <2>3, <3>1, <3>2, <3>3, <3>4 DEF PlaysWith, Running, In
  <2> QED BY <2>2, <2>3
<1> QED BY <1>3, <1>4, <1>5, <1>6, <1>7, <1>8, <1>9, <1>10, <1>11, <1>12, <1>13
        DEF Next, Setup

-----------------------------------------------------------------------------
(***************************************************************************)
(* What a session leaves behind                                            *)
(***************************************************************************)
\* Who is running a playbook has started it now, with the present files, or
\* was running it before.
Starts(r) == session'[r].with = content[Top(r)']
Continues(r) == /\ Running(r) /\ Top(r)' = Top(r) /\ ~session[r].over
                /\ session'[r].with = session[r].with
Runs(r) == Running(r)' /\ ~session'[r].over => Starts(r) \/ Continues(r)

LEMMA StaysRunning ==
  ASSUME NEW r \in Sessions, session'[r] = session[r]
  PROVE  Runs(r)
  BY DEF Runs, Continues, Running, Top

LEMMA NotRunning ==
  ASSUME NEW r \in Sessions, session'[r].pc \notin {"playing", "move"}
  PROVE  Runs(r)
  BY DEF Runs, Running

LEMMA MarkedRuns ==
  ASSUME TypeOK, NEW s \in Sessions, NEW new, Marks(s, new), NEW t \in Sessions \ {s}
  PROVE  Runs(t)
<1>1. CASE session'[t] = session[t]
  BY <1>1, StaysRunning
<1>2. CASE session'[t] = [session[t] EXCEPT !.over = TRUE]
  <2>1. session[t] \in Session
    BY DEF TypeOK
  <2> QED BY <1>2, <2>1 DEF Runs, Session
<1> QED BY <1>1, <1>2 DEF Marks

LEMMA RunsStep ==
  ASSUME TypeOK, SessionInv, [Next]_vars, NEW t \in Sessions, content' = content
  PROVE  Runs(t)
<1> USE StaysRunning, NotRunning
<1>1. CASE Start \/ ResolveParent \/ ChainLoops \/ UNCHANGED vars
  BY <1>1 DEF Start, ResolveParent, ChainLoops, vars
<1>2. CASE Stop
  BY <1>2 DEF Stop, Out
<1>3. ASSUME NEW s \in Sessions, Begin(s) PROVE Runs(t)
  <2>1. CASE Only(s, [Out EXCEPT !.pc = "check", !.todo = chain, !.replay = TRUE])
    BY <2>1 DEF Only, Out
  <2>2. CASE Only(s, [session[s] EXCEPT !.pc = "in"])
    <3>1. session[s] \in Session
      BY DEF TypeOK
    <3> QED BY <2>2, <3>1 DEF Only, Session
  <2> QED BY <1>3, <2>1, <2>2, BeginOnly
<1>4. ASSUME NEW s \in Sessions, CheckImage(s) PROVE Runs(t)
  <2>1. session[s] \in Session /\ session[s].pc = "check"
    BY <1>4 DEF TypeOK, CheckImage, In
  <2>2. CASE Only(s, Past(s, saved[Top(s)].lines))
    BY <2>1, <2>2 DEF Only, Session, Past
  <2>3. CASE Only(s, [session[s] EXCEPT !.pc = "digest"])
    BY <2>1, <2>3 DEF Only, Session
  <2> QED BY <1>4, <2>2, <2>3, CheckOnly
<1>5. ASSUME NEW s \in Sessions, TakeDigest(s) PROVE Runs(t)
  <2>1. session[s] \in Session /\ session[t] \in Session
    BY DEF TypeOK
  <2>2. Marks(s, [session[s] EXCEPT !.pc = "play"])
    BY <1>5, TakeMarks
  <2>3. CASE t = s
    BY <2>1, <2>2, <2>3 DEF Marks, Session
  <2>4. CASE t # s
    BY <2>1, <2>2, <2>4, MarkedRuns
  <2> QED BY <2>3, <2>4
<1>6. ASSUME NEW s \in Sessions, Play(s) PROVE Runs(t)
  <2>1. session[s] \in Session
    BY DEF TypeOK
  <2>2. CASE t = s
    <3>1. session'[s] = [session[s] EXCEPT !.pc = "playing", !.over = FALSE,
                                           !.with = content[Top(s)]]
      BY <1>6, PlayOnly DEF Only
    <3>2. session'[s].with = content[Top(s)] /\ Top(s)' = Top(s)
      BY <2>1, <3>1 DEF Session, Top
    <3> QED BY <2>2, <3>2 DEF Runs, Starts
  <2>3. CASE t # s
    BY <1>6, <2>3, PlayOnly DEF Only
  <2> QED BY <2>2, <2>3
<1>7. ASSUME NEW s \in Sessions, PlayEnds(s) PROVE Runs(t)
  <2>1. session[s] \in Session /\ session[s].pc = "playing"
    BY <1>7 DEF TypeOK, PlayEnds, In
  <2>2. Only(s, [session[s] EXCEPT !.pc = "move"])
    BY <1>7, GotoOnly DEF PlayEnds, Pcs
  <2>3. CASE t = s
    BY <2>1, <2>2, <2>3 DEF Only, Runs, Continues, Running, Top, Session
  <2>4. CASE t # s
    BY <2>2, <2>4 DEF Only
  <2> QED BY <2>3, <2>4
<1>8. ASSUME NEW s \in Sessions, MoveDigest(s) PROVE Runs(t)
  <2>1. session[s] \in Session
    BY DEF TypeOK
  <2>2. CASE Only(s, Out)
    BY <2>2 DEF Only, Out
  <2>3. CASE Only(s, [Past(s, Lines(Top(s), session[s].with)) EXCEPT !.pc = "play"])
    BY <2>1, <2>3 DEF Only, Session, Past
  <2> QED BY <1>8, <2>2, <2>3, MoveOnly
<1>9. ASSUME NEW s \in Sessions, Enter(s) PROVE Runs(t)
  <2>1. session[s] \in Session
    BY DEF TypeOK
  <2>2. Only(s, [session[s] EXCEPT !.pc = "in"])
    BY <1>9, GotoOnly DEF Enter, Pcs
  <2> QED BY <2>1, <2>2 DEF Only, Session
<1>10. ASSUME NEW s \in Sessions, Leave(s) \/ SessionFails(s) PROVE Runs(t)
  <2>1. Marks(s, Out)
    BY <1>10, FailsMarks
  <2>2. CASE t = s
    BY <2>1, <2>2 DEF Marks, Out
  <2> QED BY <2>1, <2>2, MarkedRuns
<1>11. ASSUME NEW i \in Images, UpdateImage(i) PROVE FALSE
  <2>1. content'[i] = content[i] + 1 /\ content[i] \in Nat
    BY <1>11, DigestsAreInts DEF UpdateImage, TypeOK
  <2> QED BY <2>1
<1> QED BY <1>1, <1>2, <1>3, <1>4, <1>5, <1>6, <1>7, <1>8, <1>9, <1>10, <1>11
        DEF Next, Setup

LEMMA RanGrows ==
  ASSUME TypeOK, SessionInv, DigestInv, PlayInv, [Next]_vars, NEW i \in Images,
         ran[i] # None, content' = content
  PROVE  ran'[i] \in Nat /\ ran[i] <= ran'[i] /\ ran'[i] <= content[i]
<1>1. ran[i] \in Nat /\ ran[i] <= content[i] /\ content[i] \in Nat
  BY DigestsAreInts DEF TypeOK, DigestInv
<1>2. ASSUME NEW s \in Sessions, PlayEnds(s)
      PROVE  ran'[i] \in Nat /\ ran[i] <= ran'[i] /\ ran'[i] <= content[i]
  BY <1>1, <1>2, PlayEndsRan
<1>3. ASSUME NEW s \in Sessions,
             \/ Begin(s) \/ CheckImage(s) \/ TakeDigest(s) \/ Play(s) \/ Enter(s)
             \/ Leave(s) \/ SessionFails(s) \/ MoveDigest(s)
      PROVE  ran' = ran
  BY <1>3 DEF Begin, CheckImage, TakeDigest, Play, Enter, Leave, SessionFails, MoveDigest, ghosts
<1>4. CASE Start \/ ResolveParent \/ ChainLoops \/ Stop \/ UNCHANGED vars
           \/ \E j \in Images : UpdateImage(j)
  BY <1>1, <1>4 DEF Start, ResolveParent, ChainLoops, Stop, UpdateImage, vars, ghosts
<1> QED BY <1>1, <1>2, <1>3, <1>4 DEF Next, Setup

\* Only a rename makes a digest one session's own again.
LEMMA MixedStays ==
  ASSUME [Next]_vars, mixed' # mixed
  PROVE  \E s \in Sessions : MoveDigest(s)
<1>1. ASSUME NEW s \in Sessions,
             \/ Begin(s) \/ CheckImage(s) \/ TakeDigest(s) \/ Play(s) \/ PlayEnds(s)
             \/ Enter(s) \/ Leave(s) \/ SessionFails(s)
      PROVE  FALSE
  BY <1>1 DEF Begin, CheckImage, TakeDigest, Play, PlayEnds, Enter, Leave, SessionFails, ghosts
<1>2. ASSUME Start \/ ResolveParent \/ ChainLoops \/ Stop \/ UNCHANGED vars
             \/ \E j \in Images : UpdateImage(j)
      PROVE  FALSE
  BY <1>2 DEF Start, ResolveParent, ChainLoops, Stop, UpdateImage, vars, ghosts
<1> QED BY <1>1, <1>2 DEF Next, Setup

\* A line that was there in one revision and is there now was there in between,
\* unless a file has become again what it was.
LEMMA Between ==
  ASSUME TypeOK, NEW i \in Images \ Returned, NEW a \in 0..content[i],
         NEW b \in a..content[i], NEW lines, lines \subseteq Lines(i, a),
         lines \subseteq Lines(i, content[i])
  PROVE  lines \subseteq Lines(i, b)
  BY DEF Returned

\* Fresh stays true as long as no image is updated.
LEMMA FreshStep ==
  ASSUME TypeOK, SessionInv, DigestInv, PlayInv, [Next]_vars, content' = content,
         NEW i \in Images, NEW lines, Fresh(i, lines)
  PROVE  Fresh(i, lines)'
<1>1. content[i] \in Nat /\ ran[i] \in {None} \cup Nat /\ ran[i] <= content[i]
  BY DigestsAreInts DEF TypeOK, DigestInv
<1>2. layout' = layout
  <2>1. ASSUME NEW s \in Sessions, Begin(s) \/ Setup(s) \/ Leave(s) \/ SessionFails(s)
        PROVE  layout' = layout
    BY <2>1 DEF Begin, Setup, CheckImage, TakeDigest, Play, PlayEnds, MoveDigest, Enter, Leave,
                SessionFails, images
  <2> QED BY <2>1 DEF Next, Start, ResolveParent, ChainLoops, Stop, UpdateImage, vars, images
<1>3. /\ Returned' = Returned
      /\ \A n : Lines(i, n)' = Lines(i, n)
      /\ Lines(i, content[i])' = Lines(i, content[i])
      /\ (lines \subseteq Lines(i, content[i]))'
      /\ lines # {}
      /\ lines \subseteq Lines(i, content[i])
  BY <1>2 DEF Returned, Lines, Fresh
<1>4. CASE i \in Returned
  BY <1>3, <1>4 DEF Fresh
<1>5. ASSUME NEW n \in Nat, n <= content[i], i \notin Returned, lines \subseteq Lines(i, n),
             ran'[i] \in Nat, n <= ran'[i], ran'[i] <= content[i]
      PROVE  Fresh(i, lines)'
  <2>1. n \in 0..content[i] /\ ran'[i] \in n..content[i] /\ ran'[i] # None
    BY <1>1, <1>5 DEF None
  <2>2. lines \subseteq Lines(i, ran'[i])
    BY <1>3, <1>5, <2>1, Between
  <2>3. (lines \subseteq Lines(i, ran[i]))'
    BY <1>2, <2>2 DEF Lines
  <2> QED BY <1>3, <2>1, <2>3 DEF Fresh
<1>6. CASE i \notin Returned /\ ran[i] # None /\ lines \subseteq Lines(i, ran[i])
  <2>1. ran'[i] \in Nat /\ ran[i] <= ran'[i] /\ ran'[i] <= content[i]
    BY <1>1, <1>6, RanGrows
  <2> QED BY <1>1, <1>5, <1>6, <2>1
<1>7. CASE /\ i \notin Returned /\ i \in mixed
           /\ \A r \in Sessions : Running(r) /\ Top(r) = i /\ ~session[r].over
                  => lines \subseteq Lines(i, session[r].with)
  <2>1. ASSUME i \in mixed' PROVE Fresh(i, lines)'
    <3>1. ASSUME NEW r \in Sessions, Running(r)', Top(r)' = i, ~session'[r].over
          PROVE  lines \subseteq Lines(i, session'[r].with)
      <4>1. Starts(r) \/ Continues(r)
        BY <3>1, RunsStep DEF Runs
      <4> QED BY <1>3, <1>7, <3>1, <4>1 DEF Starts, Continues
    <3>2. \A r \in Sessions : Running(r)' /\ Top(r)' = i /\ ~session'[r].over
                                => (lines \subseteq Lines(i, session[r].with))'
      BY <1>2, <3>1 DEF Lines
    <3> QED BY <1>3, <2>1, <3>2 DEF Fresh
  <2>2. ASSUME i \notin mixed' PROVE Fresh(i, lines)'
    <3>1. PICK s \in Sessions : MoveDigest(s)
      BY <1>7, <2>2, MixedStays
    <3>2. tmp[Top(s)] # NoDigest
      BY <1>7, <2>2, <3>1 DEF MoveDigest
    <3>3. i = Top(s) /\ ~session[s].over
      BY <1>7, <2>2, <3>1, <3>2, MoveSaved
    <3>4. /\ session[s].with \in Nat /\ session[s].with <= ran[i]
          /\ session[s].with <= content[i] /\ ran' = ran
      BY <3>1, <3>2, <3>3, MoveSaved DEF MoveDigest
    <3>5. lines \subseteq Lines(i, session[s].with)
      BY <1>7, <3>1, <3>3 DEF MoveDigest, Running, In
    <3>6. ran'[i] \in Nat
      BY <1>1, <3>4 DEF None
    <3> QED BY <1>1, <1>5, <1>7, <3>4, <3>5, <3>6
  <2> QED BY <2>1, <2>2
<1> QED BY <1>4, <1>6, <1>7 DEF Fresh

\* A session that goes on with the same list.
LEMMA GoesOn ==
  ASSUME TypeOK, NEW t \in Sessions, GoesThrough(t), chain' = chain,
         ~In(t, "out"),
         session'[t].todo = session[t].todo,
         session'[t].replay = session[t].replay,
         ~session'[t].changed => ~session[t].changed,
         \A i \in Images : ran[i] # None => ran'[i] # None,
         session'[t].by = session[t].by,
         ~session'[t].changed =>
             \A i \in Images : \A lines : Fresh(i, lines) => Fresh(i, lines)'
  PROVE  GoesThrough(t)'
<1> SUFFICES ASSUME session[t].replay
             PROVE  GoesThrough(t)'
  BY DEF GoesThrough
<1>1. Behind(t)' = Behind(t)
  BY DEF Behind
<1>2. Len(session[t].todo) \in Nat /\ Len(chain) \in Nat
  BY DEF TypeOK, Session
<1>3. \A n \in Behind(t) : chain[n] \in Images
  BY <1>2 DEF Behind, TypeOK
<1>4. ~session'[t].changed => \A n \in Behind(t) : Fresh(chain[n], session[t].by[chain[n]])'
  <2> SUFFICES ASSUME ~session'[t].changed, NEW n \in Behind(t)
               PROVE  Fresh(chain[n], session[t].by[chain[n]])'
    OBVIOUS
  <2>1. Fresh(chain[n], session[t].by[chain[n]])
    BY DEF GoesThrough
  <2>2. PICK j \in Images : j = chain[n]
    BY <1>3
  <2>3. \A lines : lines = session[t].by[j] => Fresh(j, lines)
    BY <2>1, <2>2
  <2>4. \A lines : lines = session[t].by[j] => Fresh(j, lines)'
    BY <2>3
  <2>5. chain'[n] = j /\ session'[t].by[chain'[n]] = session[t].by[j]
    BY <2>2
  <2> QED BY <2>4, <2>5 DEF Fresh
<1> QED BY <1>1, <1>3, <1>4 DEF GoesThrough

\* A session that is done with the first image of its list.
LEMMA Advances ==
  ASSUME TypeOK, NEW t \in Sessions, GoesThrough(t), chain' = chain,
         ~In(t, "out"), session[t].replay, session[t].todo # <<>>,
         session'[t].todo = Tail(session[t].todo),
         session'[t].changed = session[t].changed,
         \A j \in Images : ran[j] # None => ran'[j] # None,
         \A j \in Images : \A lines : Fresh(j, lines) => Fresh(j, lines)',
         NEW i \in Images, Top(t) = i, NEW past,
         \A j \in Images : session'[t].by[j] = IF j = i THEN past ELSE session[t].by[j],
         ran'[i] # None,
         ~session[t].changed => Fresh(i, past)'
  PROVE  GoesThrough(t)'
<1> DEFINE old == session[t].todo
           new == session'[t].todo
<1>1. /\ old \in Seq(Images) /\ Len(old) \in Nat \ {0} /\ Len(chain) \in Nat
      /\ Len(new) = Len(old) - 1
      /\ \A n \in 1..Len(new) : new[n] = old[n + 1]
      /\ Top(t) = old[1]
  BY TodoTyped DEF TypeOK, Session
<1>2. /\ Len(old) <= Len(chain)
      /\ \A n \in 1..Len(old) : old[n] = chain[Len(chain) - Len(old) + n]
      /\ \A n \in Behind(t) : ran[chain[n]] # None
      /\ ~session[t].changed =>
             \A n \in Behind(t) : Fresh(chain[n], session[t].by[chain[n]])
  BY DEF GoesThrough
<1>3. Len(new) <= Len(chain)
  BY <1>1, <1>2
<1>4. \A n \in 1..Len(new) : new[n] = chain[Len(chain) - Len(new) + n]
  <2> SUFFICES ASSUME NEW n \in 1..Len(new)
               PROVE  new[n] = chain[Len(chain) - Len(new) + n]
    OBVIOUS
  <2> DEFINE a == Len(old)
             b == Len(new)
             c == Len(chain)
  <2>1. n \in 1..b /\ a \in Nat \ {0} /\ b = a - 1 /\ c \in Nat
    BY <1>1
  <2> HIDE DEF a, b, c
  <2>2. n + 1 \in 1..a /\ c - b + n = c - a + (n + 1)
    BY <2>1
  <2>3. n + 1 \in 1..Len(old) /\ Len(chain) - Len(new) + n = Len(chain) - Len(old) + (n + 1)
    BY <2>2 DEF a, b, c
  <2>4. new[n] = old[n + 1]
    BY <1>1
  <2>5. old[n + 1] = chain[Len(chain) - Len(old) + (n + 1)]
    BY <1>2, <2>3
  <2> HIDE DEF old, new
  <2> QED BY <2>3, <2>4, <2>5
<1>5. \A n \in Behind(t)' : n \in Behind(t) \/ chain[n] = i
  <2> SUFFICES ASSUME NEW n \in Behind(t)', n \notin Behind(t)
               PROVE  chain[n] = i
    OBVIOUS
  <2> DEFINE a == Len(old)
             b == Len(new)
             c == Len(chain)
  <2>1. n \in 1..(c - b) /\ n \notin 1..(c - a)
    BY DEF Behind
  <2>2. a \in Nat \ {0} /\ b = a - 1 /\ c \in Nat /\ a <= c
    BY <1>1, <1>2
  <2> HIDE DEF a, b, c
  <2>3. n = c - a + 1 /\ 1 \in 1..a
    BY <2>1, <2>2
  <2>4. n = Len(chain) - Len(old) + 1 /\ 1 \in 1..Len(old)
    BY <2>3 DEF a, b, c
  <2> QED BY <1>1, <1>2, <2>4
<1>6. \A n \in Behind(t) : chain[n] \in Images
  BY <1>1, <1>2 DEF Behind, TypeOK
<1> HIDE DEF old, new
<1>7. \A n \in Behind(t)' : ran'[chain[n]] # None
  BY <1>2, <1>5, <1>6
<1>8. ~session'[t].changed => \A n \in Behind(t)' : Fresh(chain[n], session[t].by[chain[n]])'
  <2> SUFFICES ASSUME ~session'[t].changed, NEW n \in Behind(t)'
               PROVE  Fresh(chain[n], session[t].by[chain[n]])'
    OBVIOUS
  <2>1. CASE chain[n] = i
    <3>1. chain'[n] = i /\ session'[t].by[chain'[n]] = past /\ Fresh(i, past)'
      BY <2>1
    <3> QED BY <3>1 DEF Fresh
  <2>2. CASE chain[n] # i
    <3>1. n \in Behind(t)
      BY <1>5, <2>2
    <3>2. PICK j \in Images : j = chain[n]
      BY <1>6, <3>1
    <3>3. Fresh(chain[n], session[t].by[chain[n]])
      BY <1>2, <3>1
    <3>4. \A lines : lines = session[t].by[j] => Fresh(j, lines)
      BY <3>2, <3>3
    <3>5. \A lines : lines = session[t].by[j] => Fresh(j, lines)'
      BY <3>4
    <3>6. chain'[n] = j /\ session'[t].by[chain'[n]] = session[t].by[j]
      BY <2>2, <3>2
    <3> QED BY <3>5, <3>6 DEF Fresh
  <2> QED BY <2>1, <2>2
<1> QED BY <1>3, <1>4, <1>7, <1>8 DEF GoesThrough, old, new

LEMMA RanStep ==
  ASSUME TypeOK, SessionInv, DigestInv, PlayInv, [Next]_vars,
         NEW i \in Images, ran[i] # None
  PROVE  ran'[i] # None
<1>1. ASSUME NEW s \in Sessions, PlayEnds(s) PROVE ran'[i] # None
  BY <1>1, PlayEndsRan DEF None
<1>2. ASSUME NEW s \in Sessions,
             \/ Begin(s) \/ CheckImage(s) \/ TakeDigest(s) \/ Play(s) \/ MoveDigest(s)
             \/ Enter(s) \/ Leave(s) \/ SessionFails(s)
      PROVE  ran' = ran
  BY <1>2 DEF Begin, CheckImage, TakeDigest, Play, MoveDigest, Enter, Leave,
              SessionFails, ghosts
<1>3. ASSUME NEW j \in Images, UpdateImage(j) PROVE ran' = ran
  BY <1>3 DEF UpdateImage
<1>4. CASE Start \/ ResolveParent \/ ChainLoops \/ Stop \/ UNCHANGED vars
  BY <1>4 DEF Start, ResolveParent, ChainLoops, Stop, vars, ghosts
<1> QED BY <1>1, <1>2, <1>3, <1>4 DEF Next, Setup

\* The files agree with the digest: the playbook has run with them.
LEMMA UnchangedFresh ==
  ASSUME TypeOK, SessionInv, DigestInv, LinesInv, PlayInv, SavedWasPlayed, NEW i \in Images,
         Unchanged(i)
  PROVE  ran[i] # None /\ Fresh(i, saved[i].lines)
<1> DEFINE of == saved[i].of
           lines == saved[i].lines
<1>1. /\ lines # {} /\ lines \subseteq Lines(i, content[i])
      /\ Genuine(saved[i], i) /\ saved[i] \in Digests
      /\ content[i] \in 0..MaxUpdates /\ ran[i] \in {None} \cup 0..MaxUpdates
      /\ of <= content[i] /\ ran[i] <= content[i] /\ (of # None => ran[i] # None)
      /\ (i \notin mixed => of <= ran[i])
  BY DEF Unchanged, TypeOK, DigestInv, LinesInv, SavedWasPlayed
<1>2. of # None /\ lines \subseteq Lines(i, of)
  BY <1>1 DEF Genuine
<1>3. of \in Nat /\ content[i] \in Nat /\ ran[i] \in Nat /\ of \in 0..content[i]
  BY <1>1, <1>2, DigestsAreInts DEF Digests, None
<1>4. ASSUME i \notin Returned, i \notin mixed
      PROVE  lines \subseteq Lines(i, ran[i])
  <2>1. ran[i] \in of..content[i]
    BY <1>1, <1>3, <1>4
  <2> HIDE DEF of, lines
  <2> QED BY <1>1, <1>2, <1>3, <1>4, <2>1, Between
<1>5. ASSUME i \notin Returned, NEW r \in Sessions, Running(r), Top(r) = i, ~session[r].over
      PROVE  lines \subseteq Lines(i, session[r].with)
  <2>1. session[r].with \in Nat
    BY DigestsAreInts DEF TypeOK, Session
  <2>2. of <= session[r].with /\ session[r].with <= content[i]
    BY <1>5 DEF PlayInv, PlaysWith
  <2>3. session[r].with \in of..content[i]
    BY <1>3, <2>1, <2>2
  <2> HIDE DEF of, lines
  <2> QED BY <1>1, <1>2, <1>3, <1>5, <2>3, Between
<1> QED BY <1>1, <1>2, <1>4, <1>5 DEF Fresh

LEMMA BehindStep ==
  TypeOK /\ SessionInv /\ DigestInv /\ LinesInv /\ PlayInv /\ BehindInv /\ SavedWasPlayed
      /\ [Next]_vars
      => BehindInv'
<1> SUFFICES ASSUME TypeOK, SessionInv, DigestInv, LinesInv, PlayInv, BehindInv, SavedWasPlayed,
                    [Next]_vars, NEW t \in Sessions
             PROVE  GoesThrough(t)'
  BY DEF BehindInv
<1>0. GoesThrough(t) /\ Sane(t) /\ session[t] \in Session
  BY DEF BehindInv, SessionInv, TypeOK
<1>1. \A i \in Images : ran[i] # None => ran'[i] # None
  BY RanStep
<1>2. ASSUME content' = content
      PROVE  \A i \in Images : \A lines : Fresh(i, lines) => Fresh(i, lines)'
  BY <1>2, FreshStep
<1>3. ASSUME In(t, "out")' PROVE GoesThrough(t)'
  BY <1>3 DEF GoesThrough
<1>4. ASSUME UNCHANGED <<content, chain>>, ~In(t, "out"),
             session'[t].todo = session[t].todo,
             session'[t].replay = session[t].replay,
             session'[t].changed = session[t].changed,
             session'[t].by = session[t].by
      PROVE  GoesThrough(t)'
  BY <1>0, <1>1, <1>2, <1>4, GoesOn
<1>5. ASSUME UNCHANGED <<content, chain>>, session'[t] = session[t] PROVE GoesThrough(t)'
  BY <1>3, <1>4, <1>5 DEF In
<1>18. ASSUME NEW s \in Sessions \ {t}, NEW new, Marks(s, new), UNCHANGED <<content, chain>>
       PROVE  GoesThrough(t)'
  <2>1. CASE session'[t] = session[t]
    BY <1>5, <1>18, <2>1
  <2>2. CASE Running(t) /\ session'[t] = [session[t] EXCEPT !.over = TRUE]
    BY <1>0, <1>4, <1>18, <2>2 DEF Session, In, Running
  <2> QED BY <1>18, <2>1, <2>2 DEF Marks
<1>6. CASE Start \/ ResolveParent \/ ChainLoops
  <2>1. In(t, "out") /\ session' = session
    BY <1>0, <1>6 DEF Start, ResolveParent, ChainLoops, Sane
  <2> QED BY <1>3, <2>1 DEF In
<1>7. CASE Stop
  BY <1>3, <1>7 DEF Stop, In, Out
<1>8. ASSUME NEW s \in Sessions, Begin(s) PROVE GoesThrough(t)'
  <2>1. UNCHANGED <<content, chain>>
    BY <1>8 DEF Begin, images, boot
  <2>2. CASE t # s
    BY <1>5, <1>8, <2>1, <2>2, BeginOnly DEF Only
  <2>3. CASE t = s /\ Only(s, [Out EXCEPT !.pc = "check", !.todo = chain, !.replay = TRUE])
    <3>1. session'[t].todo = chain /\ Len(chain) \in Nat
      BY <2>3 DEF Only, Out, TypeOK
    <3>2. Behind(t)' = {}
      BY <2>1, <3>1 DEF Behind
    <3>3. /\ Len(session'[t].todo) <= Len(chain')
          /\ \A n \in 1..Len(session'[t].todo) :
                 session'[t].todo[n] = chain'[Len(chain') - Len(session'[t].todo) + n]
      BY <2>1, <3>1
    <3> QED BY <3>2, <3>3 DEF GoesThrough
  <2>4. CASE t = s /\ Only(s, [session[s] EXCEPT !.pc = "in"])
    <3>1. session[t] = Out
      BY <1>0, <1>8, <2>4 DEF Begin, Sane
    <3>2. ~session'[t].replay
      BY <2>4, <3>1 DEF Only, Out
    <3> QED BY <3>2 DEF GoesThrough
  <2> QED BY <1>8, <2>2, <2>3, <2>4, BeginOnly
<1>9. ASSUME NEW s \in Sessions, CheckImage(s) PROVE GoesThrough(t)'
  <2>1. UNCHANGED <<content, chain>> /\ In(s, "check") /\ session[s].todo # <<>>
    BY <1>9 DEF CheckImage, images, boot
  <2>2. CASE t # s
    BY <1>5, <1>9, <2>1, <2>2, CheckOnly DEF Only
  <2>3. CASE t = s /\ Unchanged(Top(s))
    <3>1. PICK i \in Images : Top(t) = i
      BY <2>1, <2>3, TodoTyped
    <3>2. PICK past \in SUBSET Line : past = saved[i].lines
      BY <3>1 DEF TypeOK, Digests
    <3>3. session'[t] = Past(t, past)
      BY <1>9, <2>3, <3>1, <3>2, CheckOnly DEF Only
    <3>4. /\ session'[t].todo = Tail(session[t].todo) /\ session'[t].changed = session[t].changed
          /\ \A j \in Images : session'[t].by[j] = IF j = i THEN past ELSE session[t].by[j]
      BY <1>0, <2>1, <2>3, <3>1, <3>3, PastParts
    <3>5. session[t].replay /\ ~In(t, "out")
      BY <1>0, <2>1, <2>3 DEF Sane, In
    <3>6. ran[i] # None /\ Fresh(i, past)
      BY <2>3, <3>1, <3>2, UnchangedFresh
    <3>7. ran'[i] # None /\ Fresh(i, past)'
      BY <1>1, <1>2, <2>1, <3>6
    <3> QED BY <1>0, <1>1, <1>2, <2>1, <2>3, <3>1, <3>4, <3>5, <3>7, Advances
  <2>4. CASE t = s /\ ~Unchanged(Top(s))
    <3>1. session'[t] = [session[t] EXCEPT !.pc = "digest"]
      BY <1>9, <2>4, CheckOnly DEF Only
    <3> QED BY <1>0, <1>4, <2>1, <2>4, <3>1 DEF Session, In
  <2> QED BY <2>2, <2>3, <2>4
<1>10. ASSUME NEW s \in Sessions, TakeDigest(s) PROVE GoesThrough(t)'
  <2>1. UNCHANGED <<content, chain>> /\ In(s, "digest")
    BY <1>10 DEF TakeDigest, images, boot
  <2>2. Marks(s, [session[s] EXCEPT !.pc = "play"])
    BY <1>10, TakeMarks
  <2>3. CASE t = s
    BY <1>0, <1>4, <2>1, <2>2, <2>3 DEF Marks, Session, In
  <2>4. CASE t # s
    BY <2>1, <2>2, <2>4, <1>18
  <2> QED BY <2>3, <2>4
<1>11. ASSUME NEW s \in Sessions, Play(s) PROVE GoesThrough(t)'
  <2>1. UNCHANGED <<content, chain>> /\ In(s, "play")
    BY <1>11 DEF Play, images, boot
  <2>2. CASE t = s
    <3>1. session'[t] = [session[t] EXCEPT !.pc = "playing", !.over = FALSE,
                                           !.with = content[Top(s)]]
      BY <1>11, <2>2, PlayOnly DEF Only
    <3>2. /\ session'[t].todo = session[t].todo /\ session'[t].replay = session[t].replay
          /\ session'[t].changed = session[t].changed /\ session'[t].by = session[t].by
      BY <1>0, <3>1 DEF Session
    <3> QED BY <1>4, <2>1, <2>2, <3>2 DEF In
  <2>3. CASE t # s
    BY <1>5, <1>11, <2>1, <2>3, PlayOnly DEF Only
  <2> QED BY <2>2, <2>3
<1>12. ASSUME NEW s \in Sessions, PlayEnds(s) PROVE GoesThrough(t)'
  <2>1. UNCHANGED <<content, chain>> /\ In(s, "playing")
    BY <1>12 DEF PlayEnds, images, boot
  <2>2. Only(s, [session[s] EXCEPT !.pc = "move"])
    BY <1>12, GotoOnly DEF PlayEnds, Pcs
  <2>3. CASE t = s
    BY <1>0, <1>4, <2>1, <2>2, <2>3 DEF Only, Session, In
  <2>4. CASE t # s
    BY <1>5, <2>1, <2>2, <2>4 DEF Only
  <2> QED BY <2>3, <2>4
<1>13. ASSUME NEW s \in Sessions, MoveDigest(s) PROVE GoesThrough(t)'
  <2>1. UNCHANGED <<content, chain, ran>> /\ In(s, "move")
    BY <1>13 DEF MoveDigest, images, boot
  <2>2. CASE Only(s, Out)
    BY <1>3, <1>5, <2>1, <2>2 DEF Only, In, Out
  <2>3. CASE tmp[Top(s)] # NoDigest /\ t # s
    BY <1>5, <1>13, <2>1, <2>3, MoveOnly DEF Only
  <2>4. CASE tmp[Top(s)] # NoDigest /\ t = s
    <3>1. PICK i \in Images : Top(t) = i
      BY <1>13, <2>4, MoveSaved
    <3>2. session[t].with \in 0..MaxUpdates
      BY <1>0 DEF Session
    <3>3. PICK past \in SUBSET Line : past = Lines(i, session[t].with) /\ past # {}
      BY <3>2, LinesTyped
    <3>4. session'[t] = [Past(t, past) EXCEPT !.pc = "play"]
      BY <1>13, <2>4, <3>1, <3>3, MoveOnly DEF Only
    <3>5. session[t].replay /\ ~In(t, "out") /\ session[t].todo # <<>>
      BY <1>0, <2>1, <2>4 DEF Sane, In
    <3>6. /\ session'[t].todo = Tail(session[t].todo) /\ session'[t].changed = session[t].changed
          /\ \A j \in Images : session'[t].by[j] = IF j = i THEN past ELSE session[t].by[j]
      BY <1>0, <3>1, <3>4, <3>5, PastParts
    <3>7. /\ content[i] \in Nat /\ ran[i] \in Int /\ session[t].with \in Nat
          /\ session[t].with <= ran[i] /\ ran[i] <= content[i]
          /\ ~session[t].changed => session[t].with = content[i]
      BY <1>13, <2>4, <3>1, MoveSaved, DigestsAreInts DEF TypeOK, DigestInv
    <3>8. ran'[i] # None
      BY <2>1, <3>7 DEF None
    <3>9. ASSUME ~session[t].changed PROVE Fresh(i, past)'
      <4>1. session[t].with = content[i] /\ ran[i] = content[i]
        BY <3>7, <3>9
      <4>2. past # {} /\ past \subseteq Lines(i, content[i]) /\ past \subseteq Lines(i, ran[i])
        BY <3>3, <4>1
      <4>3. layout' = layout
        BY <1>13 DEF MoveDigest, images
      <4>4. Lines(i, content[i])' = Lines(i, content[i]) /\ Lines(i, ran[i])' = Lines(i, ran[i])
        BY <2>1, <4>3 DEF Lines
      <4> QED BY <3>8, <4>2, <4>4 DEF Fresh
    <3> QED BY <1>0, <1>1, <1>2, <2>1, <2>4, <3>1, <3>5, <3>6, <3>8, <3>9, Advances
  <2> QED BY <1>13, <2>2, <2>3, <2>4, MoveOnly
<1>14. ASSUME NEW s \in Sessions, Enter(s) PROVE GoesThrough(t)'
  <2>1. UNCHANGED <<content, chain>> /\ ~In(s, "out")
    BY <1>14 DEF Enter, images, boot, In
  <2>2. Only(s, [session[s] EXCEPT !.pc = "in"])
    BY <1>14, GotoOnly DEF Enter, Pcs
  <2>3. CASE t = s
    BY <1>0, <1>4, <2>1, <2>2, <2>3 DEF Only, Session
  <2>4. CASE t # s
    BY <1>5, <2>1, <2>2, <2>4 DEF Only
  <2> QED BY <2>3, <2>4
<1>15. ASSUME NEW s \in Sessions, Leave(s) \/ SessionFails(s) PROVE GoesThrough(t)'
  <2>1. Marks(s, Out) /\ UNCHANGED <<content, chain>>
    BY <1>15, FailsMarks DEF Leave, SessionFails, images, boot
  <2>2. CASE t = s
    BY <1>3, <2>1, <2>2 DEF Marks, In, Out
  <2>3. CASE t # s
    BY <2>1, <2>3, <1>18
  <2> QED BY <2>2, <2>3
<1>16. ASSUME NEW j \in Images, UpdateImage(j) PROVE GoesThrough(t)'
  <2>1. session'[t] = [session[t] EXCEPT !.changed = (session[t].pc # "out")]
    BY <1>16, UpdateOnly
  <2>2. CASE In(t, "out")
    <3>1. session'[t].pc = "out"
      BY <1>0, <2>1, <2>2 DEF In, Session
    <3> QED BY <1>3, <3>1 DEF In
  <2>3. CASE ~In(t, "out")
    <3>1. /\ session'[t].changed /\ session'[t].todo = session[t].todo
          /\ session'[t].replay = session[t].replay /\ session'[t].by = session[t].by
      BY <1>0, <2>1, <2>3 DEF In, Session
    <3>2. chain' = chain
      BY <1>16 DEF UpdateImage, boot
    <3> QED BY <1>0, <1>1, <2>3, <3>1, <3>2, GoesOn
  <2> QED BY <2>2, <2>3
<1>17. CASE UNCHANGED vars
  BY <1>5, <1>17 DEF vars, images, boot
<1> QED BY <1>6, <1>7, <1>8, <1>9, <1>10, <1>11, <1>12, <1>13, <1>14, <1>15, <1>16,
           <1>17 DEF Next, Setup

LEMMA SavedStep ==
  TypeOK /\ SessionInv /\ DigestInv /\ PlayInv /\ SavedWasPlayed /\ [Next]_vars
      => SavedWasPlayed'
<1> SUFFICES ASSUME TypeOK, SessionInv, DigestInv, PlayInv, SavedWasPlayed, [Next]_vars,
                    NEW i \in Images, i \notin mixed'
             PROVE  saved'[i].of <= ran'[i]
  BY DEF SavedWasPlayed
<1>1. saved[i].of \in Int /\ tmp[i].of \in Int /\ ran[i] \in Int /\ (i \notin mixed => saved[i].of <= ran[i])
  BY DigestsAreInts DEF TypeOK, SavedWasPlayed
<1>2. CASE UNCHANGED <<saved, ran, mixed>>
  BY <1>1, <1>2
<1>3. ASSUME NEW s \in Sessions, PlayEnds(s) PROVE saved'[i].of <= ran'[i]
  <2>1. UNCHANGED <<saved, mixed>>
    BY <1>3 DEF PlayEnds
  <2>2. ran'[i] \in Int /\ ran[i] <= ran'[i]
    BY <1>1, <1>3, PlayEndsRan
  <2> QED BY <1>1, <2>1, <2>2
<1>4. ASSUME NEW s \in Sessions, MoveDigest(s) PROVE saved'[i].of <= ran'[i]
  <2>1. ran' = ran
    BY <1>4 DEF MoveDigest
  <2>2. CASE tmp[Top(s)] = NoDigest
    BY <1>2, <1>4, <2>1, <2>2 DEF MoveDigest
  <2>3. CASE tmp[Top(s)] # NoDigest /\ i # Top(s)
    BY <1>1, <1>4, <2>1, <2>3, MoveSaved
  <2>4. CASE tmp[Top(s)] # NoDigest /\ i = Top(s)
    BY <1>1, <1>4, <2>1, <2>4, MoveSaved
  <2> QED BY <2>2, <2>3, <2>4
<1>5. ASSUME NEW s \in Sessions,
             \/ Begin(s) \/ CheckImage(s) \/ TakeDigest(s) \/ Play(s) \/ Enter(s)
             \/ Leave(s) \/ SessionFails(s)
      PROVE  UNCHANGED <<saved, ran, mixed>>
  BY <1>5 DEF Begin, CheckImage, TakeDigest, Play, Enter, Leave, SessionFails, ghosts
<1>6. ASSUME NEW j \in Images, UpdateImage(j) PROVE UNCHANGED <<saved, ran, mixed>>
  BY <1>6 DEF UpdateImage
<1>7. CASE Start \/ ResolveParent \/ ChainLoops \/ Stop \/ UNCHANGED vars
  BY <1>2, <1>7 DEF Start, ResolveParent, ChainLoops, Stop, vars, ghosts
<1> QED BY <1>2, <1>3, <1>4, <1>5, <1>6, <1>7 DEF Next, Setup

-----------------------------------------------------------------------------
(***************************************************************************)
(* Theorems                                                                *)
(***************************************************************************)
LEMMA InitInv == Init => IInv
<1> SUFFICES ASSUME Init PROVE IInv
  OBVIOUS
<1>1. \A s \in Sessions : session[s] = Out
  BY DEF Init
<1>2. SessionInv /\ PlayInv /\ BehindInv
  <2>1. \A s \in Sessions : session[s].pc = "out"
    BY <1>1 DEF Out
  <2> QED BY <1>1, <2>1 DEF SessionInv, Sane, PlayInv, PlaysWith, Running, BehindInv,
                           GoesThrough, In
<1>3. ChainInv
  BY DEF Init, ChainInv
<1>4. DigestInv /\ LinesInv /\ SavedWasPlayed
  BY DEF Init, DigestInv, LinesInv, Genuine, SavedWasPlayed, NoDigest, None
<1> QED BY <1>2, <1>3, <1>4 DEF IInv

LEMMA Invariance == Spec => [](TypeOK /\ IInv)
<1>1. TypeOK /\ IInv /\ [Next]_vars => (TypeOK /\ IInv)'
  <2> SUFFICES ASSUME TypeOK, IInv, [Next]_vars PROVE (TypeOK /\ IInv)'
    OBVIOUS
  <2>1. TypeOK'
    BY NextTyped DEF IInv
  <2> QED BY <2>1, SessionStep, ChainStep, DigestStep, LinesStep, PlayStep, BehindStep, SavedStep
          DEF IInv
<1> QED BY <1>1, InitTyped, InitInv, PTL DEF Spec

\* Every variable of Replay keeps its type, for any images and layouts; in
\* particular a chain and what is left of it are images.
THEOREM Typing == Spec => []TypeOK
  BY Invariance, PTL

\* A digest is never saved for files that no playbook has run with, whichever
\* sessions die or fail and however images are updated meanwhile, unless two
\* sessions worked on the image at once (nsbox-enter-setup.sh:24-25, 59).
THEOREM SavedPlayed == Spec => []SavedWasPlayed
<1>1. IInv => SavedWasPlayed
  BY DEF IInv
<1> QED BY <1>1, Invariance, PTL

\* Who gets in with replay has been let past every image by files that the
\* playbook has run with and that are still as they were then; what the image's
\* digest does not list is not looked at (nsbox-enter-setup.sh:18-61).
THEOREM UpToDate == Spec => []EntryUpToDate
<1>1. TypeOK /\ IInv => EntryUpToDate
  <2> SUFFICES ASSUME TypeOK, IInv, NEW s \in Sessions,
                      In(s, "in"), session[s].replay, ~session[s].changed,
                      NEW i \in InChain \ (mixed \cup Returned)
               PROVE  /\ session[s].by[i] # {}
                      /\ session[s].by[i] \subseteq Lines(i, content[i])
                      /\ ran[i] # None
                      /\ session[s].by[i] \subseteq Lines(i, ran[i])
    BY DEF EntryUpToDate
  <2>1. session[s].todo = <<>> /\ GoesThrough(s)
    BY DEF IInv, SessionInv, Sane, BehindInv
  <2>2. chain \in Seq(Images)
    BY DEF TypeOK
  <2>3. PICK n \in 1..Len(chain) : i = chain[n]
    BY <2>2 DEF InChain, ToSet
  <2>4. n \in Behind(s)
    BY <2>1, <2>2 DEF Behind
  <2>5. Fresh(i, session[s].by[i])
    BY <2>1, <2>3, <2>4 DEF GoesThrough, In
  <2> QED BY <2>5 DEF Fresh
<1> QED BY <1>1, Invariance, PTL

\* No playbook is started before that of the image its own is derived from
\* has run, however the sessions that ran it ended (Image.ResolveChain,
\* nsbox-enter-setup.sh:53-61).
THEOREM Bases == Spec => []BasesFirst
<1>1. TypeOK /\ IInv => BasesFirst
  <2> SUFFICES ASSUME TypeOK, IInv, NEW s \in Sessions, In(s, "playing"),
                      layout.parent[Top(s)] # NoImage
               PROVE  ran[layout.parent[Top(s)]] # None
    BY DEF BasesFirst
  <2> DEFINE todo == session[s].todo
             k == Len(chain) - Len(todo)
  <2>1. todo # <<>> /\ session[s].replay /\ phase = "up" /\ GoesThrough(s) /\ ~In(s, "out")
    BY DEF IInv, SessionInv, Sane, BehindInv, In
  <2>2. Len(todo) \in Nat \ {0} /\ Len(chain) \in Nat /\ Top(s) = todo[1]
    BY <2>1, TodoTyped DEF TypeOK
  <2>3. k \in Nat /\ k < Len(chain) /\ Top(s) = chain[k + 1]
    <3>1. Len(todo) <= Len(chain) /\ 1 \in 1..Len(todo)
      BY <2>1, <2>2 DEF GoesThrough
    <3>2. todo[1] = chain[Len(chain) - Len(todo) + 1]
      BY <2>1, <3>1 DEF GoesThrough
    <3> HIDE DEF todo
    <3> QED BY <2>2, <3>1, <3>2
  <2>4. k # 0
    <3>1. layout.parent[chain[1]] = NoImage
      BY <2>1 DEF IInv, ChainInv
    <3> SUFFICES ASSUME k = 0 PROVE FALSE
      OBVIOUS
    <3>2. k + 1 = 1
      OBVIOUS
    <3> HIDE DEF k
    <3> QED BY <2>3, <3>1, <3>2
  <2>5. k + 1 \in 2..Len(chain) /\ (k + 1) - 1 = k /\ k \in 1..k
    BY <2>2, <2>3, <2>4
  <2>6. layout.parent[Top(s)] = chain[k]
    BY <2>1, <2>3, <2>5 DEF IInv, ChainInv
  <2>7. ran[chain[k]] # None
    BY <2>1, <2>5 DEF GoesThrough, Behind
  <2> QED BY <2>6, <2>7
<1> QED BY <1>1, Invariance, PTL
=============================================================================
