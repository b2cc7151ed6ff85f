---------------------------- MODULE MCThreadPool ----------------------------
(***************************************************************************)
(* A small instance of ThreadPool for TLC: three programs of two clients   *)
(* and two workers.                                                        *)
(***************************************************************************)
EXTENDS ThreadPool, TLC

CONSTANTS m, c, w1, w2

TwoWorkers == <<w1, w2>>

\* The pool is used while it starts and while it stops: c submits a task that
\* submits another one and a task that throws, at any time in the life of
\* the pool; m stops the pool and destroys it.
StartStop == (m :> <<"start", "ok", "stop", "destroy">>) @@ (c :> <<"spawn", "throws">>)

\* A task before start(), which m executes itself; a task may terminate the
\* process; the destructor stops the pool.
DestroyOnly == (m :> <<"throws", "start", "ok", "destroy">>) @@ (c :> <<"unknown", "ok">>)

\* The pool is never stopped; one of the two workers may be lost.
Serve == (m :> <<"start", "throws", "ok">>) @@ (c :> <<"spawn", "ok">>)

ThreePrograms == {StartStop, DestroyOnly, Serve}

=============================================================================
