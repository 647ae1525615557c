-------------------------------- MODULE MCSignIn --------------------------------
(***************************************************************************)
(* Two browsers at two addresses for SignIn.                               *)
(***************************************************************************)
EXTENDS SignIn, TLC

MCAddress == [b \in Browsers |-> b]
\* Doubling and capping at each step is doubling from the first and capping once.
ASSUME DelaysAreCappedPowers ==
  \A step \in 0 .. 8 : Delays[step] = MinOf(BaseDelay * 2 ^ step, MaxDelay)

Interchangeable == Permutations(Browsers) \cup Permutations(Passwords)

=================================================================================
