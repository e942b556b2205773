----------------------------- MODULE MCStartup -----------------------------
(* Startup for TLC.                                                        *)
EXTENDS Startup

\* Spawning as it comes, turned off by esd.conf, and with other options.
SomeSettings ==
    {[auto_spawn |-> <<>>, env_no_spawn |-> FALSE, spawn_options |-> <<>>,
      default_options |-> <<"-trust">>],
     [auto_spawn |-> <<"1", "0", "junk">>, env_no_spawn |-> FALSE, spawn_options |-> <<>>,
      default_options |-> <<"-tcp">>]}

ByHand == {<<"-unix">>, <<"-tcp">>}
=============================================================================
