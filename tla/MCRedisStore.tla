----------------------------- MODULE MCRedisStore -----------------------------
(***************************************************************************)
(* Small instances of RedisStore for TLC.  Users, options, keys and        *)
(* processes are interchangeable: no definition names one of them.         *)
(***************************************************************************)
EXTENDS RedisStore, TLC

CONSTANTS u1, u2, o1, o2, o3, k1, k2, p1, self1, self2

\* Every poll has the same options: three, the least the service accepts, but
\* for the run of the retries, which does not tell options apart.
AllOptions == {Options}

FarExpiry == {100}

\* A second and a half after the first instant, and a second after it.
NearExpiries == {3, 4}

Symmetry ==
  Permutations(Users) \cup Permutations(Options) \cup Permutations(Keys)
    \cup Permutations(Procs)
=============================================================================
