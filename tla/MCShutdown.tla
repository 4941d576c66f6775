----------------------------- MODULE MCShutdown -----------------------------
(* Values for the constants of Shutdown. *)
EXTENDS Shutdown

\* Of every kind but release, which the dispatcher starts as it does acquire;
\* and a second creation.
MostKinds == ((Kind \ {"release"}) \X {1}) \cup {<<"create", 2>>}

\* Two of the kinds that main and the dispatcher start concurrently.
TwoKinds == {"create", "acquire"} \X {1, 2}
=============================================================================
