---------------------------- MODULE MCEPollPoller ----------------------------
(* Instance of EPollPoller for TLC: more channel objects than descriptors, *)
(* so that descriptors are reused.                                         *)
EXTENDS EPollPoller, TLC

\* Channel objects are interchangeable, and so are descriptor numbers.
PollerSymmetry == Permutations(Channels) \cup Permutations(Fds)
=============================================================================
