----------------------------- MODULE MCStartup -----------------------------
\* Sudoers files in which no rule is for the user, one is, or a later one
\* overrides an earlier one; and hosts on which the rules are not what counts.
EXTENDS Startup

Wheel == [mine |-> TRUE, all |-> TRUE, authenticated |-> TRUE]
Free == [Wheel EXCEPT !.authenticated = FALSE]
Other == [Free EXCEPT !.mine = FALSE]
Answers(rules) == [rules |-> rules, cvtsudoers |-> "answers", member |-> TRUE]
MCRights ==
    {Answers(<<Other>>), Answers(<<Wheel, Other>>), Answers(<<Wheel, Free>>)}
        \cup {[rules |-> <<Free>>, cvtsudoers |-> c, member |-> TRUE] :
                 c \in {"missing", "fails", "disabled"}}
        \cup {[rules |-> <<Free>>, cvtsudoers |-> "disabled", member |-> FALSE]}
=============================================================================
