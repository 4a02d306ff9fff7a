----------------------------- MODULE MCSession -----------------------------
\* One session, with no terminal, with output or input redirected, and with
\* all of its streams on one.
EXTENDS Session, TLC

MCTerminals == {{}, {"stdin"}, {"stderr"}, {"stdin", "stdout", "stderr"}}
=============================================================================
