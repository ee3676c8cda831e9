------------------------------- MODULE MCLogin -------------------------------
\* One target, two passwords of different length, and four ways to log in.
EXTENDS Login

MCPasswords == {<<1>>, <<1, 2>>}

MCEngines == {[key |-> "none", unsafe |-> None, auto |-> TRUE],
              [key |-> "plain", unsafe |-> None, auto |-> FALSE],
              [key |-> "encrypted", unsafe |-> None, auto |-> FALSE],
              [key |-> "none", unsafe |-> <<1>>, auto |-> FALSE]}
=============================================================================
