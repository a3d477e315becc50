------------------------ MODULE MCUpdateTransaction ------------------------
(* Small instances of UpdateTransaction for TLC. *)
EXTENDS UpdateTransaction

On(platform) ==
    [platform |-> platform, fixture |-> FALSE, supervised |-> FALSE, headless |-> FALSE,
     manual |-> FALSE, faulty |-> FALSE, bad |-> {}]
Fixture(platform) == [On(platform) EXCEPT !.fixture = TRUE, !.manual = TRUE]

\* The service, with and without a service manager; the desktop application on
\* each system, where a restore may fail; and the build that has the helper,
\* with a healthy and with an unhealthy release.
AllHosts ==
    {[On("posix") EXCEPT !.headless = TRUE, !.supervised = s] : s \in BOOLEAN}
    \cup {[On("posix") EXCEPT !.manual = TRUE, !.bad = {2}]}
    \cup {[On(pf) EXCEPT !.faulty = TRUE] : pf \in Platforms}
    \cup {Fixture("posix")}
    \cup {[Fixture(pf) EXCEPT !.bad = {2}, !.faulty = TRUE] : pf \in Platforms}

BundleHosts == {On("bundle")}
=============================================================================
