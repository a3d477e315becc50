------------------------ MODULE MCManagedDownloads ------------------------
(***************************************************************************)
(* Instances of ManagedDownloads for TLC: a season pack t1 of episodes 1,  *)
(* 2 and 3, a film t2 with source 4, and workloads of up to three          *)
(* goroutines.                                                             *)
(***************************************************************************)
EXTENDS ManagedDownloads, TLC

CONSTANTS t1, t2, r1, r2, r3

PackAndFilm == (1 :> t1) @@ (2 :> t1) @@ (3 :> t1) @@ (4 :> t2)
ShortPackAndFilm == (1 :> t1) @@ (2 :> t1) @@ (4 :> t2)
PackTwoFilmOne == (t1 :> 2) @@ (t2 :> 1)
PackTwoFilmTwo == (t1 :> 2) @@ (t2 :> 2)

Idle == <<{}, {}>>
Goroutines(a, b, c) ==
    [may |-> (r1 :> a[1]) @@ (r2 :> b[1]) @@ (r3 :> c[1]),
     asks |-> (r1 :> a[2]) @@ (r2 :> b[2]) @@ (r3 :> c[2])]
With3(g, faults, library, allocation) ==
    [may |-> g.may, asks |-> g.asks, faults |-> faults, library |-> library,
     allocation |-> allocation]

\* Two viewers of sibling episodes, one of whom also prepares, next to removals.
Isolation == With3(Goroutines(<<{"stream"}, {1}>>, <<{"stream", "prepare"}, {2}>>,
                              <<{"remove", "retain"}, {1}>>), {}, {1, 2}, 1)

\* The same viewers next to a retention pass that has a film to evict as well.
Eviction == With3(Goroutines(<<{"stream"}, {1}>>, <<{"stream", "prepare"}, {2}>>,
                             <<{"retain"}, {}>>), {}, {1, 2, 4}, 2)

\* Three removals of the same torrents at once.
Removals == With3(Goroutines(<<{"remove"}, {1}>>, <<{"remove"}, {2}>>,
                             <<{"remove", "retain"}, {3, 4}>>), {}, Source, 2)

\* One goroutine that adds and removes next to a viewer.
Admission == With3(Goroutines(<<{"prepare", "remove", "retain"}, {1, 4}>>,
                              <<{"stream"}, {1}>>, Idle), {}, {1, 4}, 2)

\* The same with whole seasons, then with both kinds of admission of one torrent
\* next to a viewer of the other.
Seasons == With3(Goroutines(<<{"season", "remove", "retain"}, {1, 4}>>,
                            <<{"stream"}, {1}>>, Idle), {}, {4}, 2)
Mixed == With3(Goroutines(<<{"prepare", "season", "remove", "retain"}, {1}>>,
                          <<{"stream"}, {4}>>, Idle), {}, {1, 4}, 2)

\* One goroutine that adds next to one that pauses.
Selection == With3(Goroutines(<<{"stream", "prepare", "season"}, {1, 2}>>,
                              <<{"pause"}, {1}>>, Idle), {}, {1, 2}, 0)

\* One goroutine that adds sibling episodes next to a viewer of them.
Siblings == With3(Goroutines(<<{"prepare", "poll"}, {1, 2}>>, <<{"stream", "pause"}, {1, 2}>>, Idle),
                  {}, {1, 2}, 0)

\* Every operation, one at a time, with every fault.
Faulty == With3(Goroutines(<<Operation, {1}>>, Idle, Idle),
                {"fail", "vanish", "crash"}, {1, 2, 4}, 2)

SafetyLoads == {Isolation, Eviction, Removals, Admission, Seasons, Mixed,
                Selection, Siblings, Faulty}

\* Contention for every mutex while rows and the torrent disappear.
Contention == With3(Goroutines(<<{"prepare", "season"}, {1}>>,
                               <<{"stream", "prepare", "season", "remove"}, {1}>>, Idle), {}, {1, 2}, 0)

\* The scheduler next to a viewer who also removes.
Scheduled == With3(Goroutines(<<{"stream", "remove"}, {1, 4}>>, <<{"retain"}, {}>>, Idle),
                   {}, {1, 2, 4}, 1)

LivenessLoads == {Contention, Scheduled}

\* Two requests of one player for the same source.
StreamPair == {With3(Goroutines(<<{"stream"}, {1}>>, <<{"stream"}, {1}>>, Idle), {}, {1}, 0)}

\* Two downloads prepared at once, of which either fits.
AdmissionPair == {With3(Goroutines(<<{"prepare"}, {1}>>, <<{"prepare"}, {4}>>, Idle), {}, {}, 2)}

\* The polled list next to a removal.
PollAndRemoval == {With3(Goroutines(<<{"poll"}, {}>>, <<{"remove"}, {1}>>, Idle), {}, {1, 2}, 0)}
=============================================================================
