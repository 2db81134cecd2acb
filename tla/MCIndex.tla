------------------------------- MODULE MCIndex -------------------------------
(* TLC instances of Index.                                                 *)
EXTENDS Index

Options(action, s, a, c, auto) ==
    [action |-> action, server |-> s, forced |-> a, cred |-> c, auto |-> auto]

\* A start from the launcher, and the starts by another program.
PlainLaunch == {Options("absent", None, None, None, FALSE)}

CallerLaunches ==
    {Options("log", None, None, None, FALSE),
     Options("check", None, None, None, FALSE),
     Options("other", None, None, None, FALSE),
     Options("login", None, None, None, FALSE)}
    \cup {Options("login", s, a, c, auto) :
             s \in Servers, a \in Adapters \cup {None}, c \in Creds \cup {None},
             auto \in BOOLEAN}

AllLaunches == PlainLaunch \cup CallerLaunches

\* Nothing stored yet, a password remembered, a password not remembered.
StoredAccounts ==
    {NoAccount} \cup [cred : Creds \cup {None}, server : Servers, adapter : {First}]
EmptyStore == {NoAccount}
=============================================================================
