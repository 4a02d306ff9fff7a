----------------------------- MODULE MCReplay ------------------------------
\* Three images, each derived from the one before, whose update changes a
\* file, adds one, or removes one; an image that is its own parent; and one
\* whose custom directory is broken.
EXTENDS Replay, TLC

CONSTANTS a, b, c

MCImages == {a, b, c}
MCLine == {"p0", "p1", "q0"}
Chain == (a :> NoImage) @@ (b :> a) @@ (c :> b)
Everywhere(x) == [i \in MCImages |-> x]
Update(old, new) == (0 :> old) @@ (1 :> new)
Changed == Update({"p0"}, {"p1"})
Added == Update({"p0"}, {"p0", "q0"})
Removed == Update({"p0", "q0"}, {"p0"})

Changes == [parent |-> Chain, custom |-> Everywhere("none"),
            system |-> Everywhere("good"), lines |-> Everywhere(Changed)]
MCChanges == {Changes}
MCLayouts ==
    {[Changes EXCEPT !.lines = (a :> Removed) @@ (b :> Added) @@ (c :> Changed)],
     [Changes EXCEPT !.parent[a] = a],
     [Changes EXCEPT !.custom[a] = "bad"]}
=============================================================================
