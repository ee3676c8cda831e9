------------------------------ MODULE MCSettings ------------------------------
(***************************************************************************)
(* Files to start from.                                                     *)
(***************************************************************************)
EXTENDS Settings

\* The shared entries.
Shared ==
    [terminal |-> [font |-> "shared", line |-> "shared", theme |-> [colors |-> "shared"]],
     termios  |-> [cc |-> "shared", speed |-> "shared", flags |-> [flag |-> "shared", control |-> "shared"]],
     queue    |-> [auto |-> 0, paused |-> "shared"],
     ssh      |-> [agent |-> FALSE, other |-> "shared"]]

\* A shell that takes everything from the shared entries but its font.
Shell ==
    Shared @@ [session |-> [type |-> "shell", terminal |-> [ref |-> "default", font |-> "own"],
                            termios |-> [ref |-> "default"], queue |-> [ref |-> "default"],
                            layouts |-> [l1 |-> 0]]]

\* A shell with settings of its own, in a file without the termios entry.
OwnShell ==
    [terminal |-> [line |-> "shared", theme |-> [colors |-> "shared"]],
     session  |-> [type |-> "shell", terminal |-> [font |-> "own", theme |-> [colors |-> "own"]],
                   termios |-> [ref |-> "default", flags |-> [flag |-> "own"]], queue |-> [auto |-> 0, paused |-> "own"]]]

\* A shell with colors of its own that refers to an entry without any.
Themed ==
    [terminal |-> [font |-> "shared"],
     session  |-> [type |-> "shell", terminal |-> [ref |-> "default", theme |-> [colors |-> "own"]]]]

\* An ssh session that refers to a shared one.
Remote ==
    Shared @@
    [sshSession |-> [host |-> "shared", user |-> "shared", password |-> "shared",
                     ssh |-> [ref |-> "default"]],
     session    |-> [type |-> "ssh", terminal |-> [ref |-> "default"],
                     engine |-> [ref |-> "default", host |-> "own", password |-> "own",
                                 ssh |-> [ref |-> "default", agent |-> TRUE]]]]

MCFiles == {None, Torn, IllTyped, Shell, OwnShell, Themed, Remote}

=============================================================================
