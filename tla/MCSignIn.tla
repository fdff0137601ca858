------------------------------- MODULE MCSignIn -------------------------------
(***************************************************************************)
(* Signing in for TLC: the command line's saved login and the server's copy *)
(* of the signing keys.  They share no variable, so a behaviour explores    *)
(* one of them and leaves the other at rest.                                *)
(***************************************************************************)
EXTENDS Credentials, KeyCache, TLC

VARIABLE part

BothInit == Init /\ KeysInit /\ part \in {"command", "server"}

BothNext ==
    /\ UNCHANGED part
    /\ \/ part = "command" /\ Next /\ UNCHANGED keysVars
       \/ part = "server" /\ KeysNext /\ UNCHANGED vars

BothSpec == BothInit /\ [][BothNext]_<<vars, keysVars, part>>

Interchangeable == Permutations(Commands) \cup Permutations(Profiles) \cup Permutations(Requests)
=============================================================================
