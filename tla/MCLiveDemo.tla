------------------------------ MODULE MCLiveDemo ------------------------------
(* A small instance of LiveDemo for TLC.                                    *)
EXTENDS LiveDemo

R(b, success) == [kind |-> "reply", backend |-> b, success |-> success]
Lost == [kind |-> "unreachable", backend |-> Unresolved, success |-> FALSE]
Broken == [kind |-> "no_object", backend |-> Unresolved, success |-> FALSE]

\* Each backend fails more than the other, both alike, one or none is seen,
\* and one reply that no transaction survives.
SomeSamples ==
    { <<R("VPN-01", TRUE), R("VPN-02", FALSE)>>,
      <<R("VPN-01", FALSE), R("VPN-02", TRUE)>>,
      <<R("VPN-01", FALSE), R("VPN-02", FALSE)>>,
      <<R("VPN-02", FALSE), Lost>>,
      <<R("VPN-01", TRUE), Broken>> }

\* The lab with its fault, as it is set up.
OneSample == { <<R("VPN-01", TRUE), R("VPN-02", FALSE)>> }

\* One that works, one without a backend, one on another host, and one that
\* does not know its own commit and serves another origin.
Deployed ==
    { [configured |-> TRUE, host |-> "expected", sourced |-> TRUE, origins |-> {"page"}],
      [configured |-> FALSE, host |-> "expected", sourced |-> TRUE, origins |-> {"page"}],
      [configured |-> TRUE, host |-> "other", sourced |-> TRUE, origins |-> {"page"}],
      [configured |-> TRUE, host |-> "other", sourced |-> FALSE, origins |-> {}] }

Before(d, l) == [configured |-> d.configured, host |-> d.host, sourced |-> d.sourced,
                 origins |-> d.origins, lab |-> l]

SomeServers ==
    {Before(d, SomeSamples) : d \in Deployed}
    \cup {Before(d, OneSample) : d \in {e \in Deployed : e.configured /\ e.sourced}}

TheFixture == PublishedHandoff("VPN-02", "VPN-01")
SomePublished == { PublishedHandoff("VPN-01", "VPN-02") }

\* Someone who clicks and marks at any time, without a monitor; someone who
\* watches the monitor and waits for each run.
BothVisits ==
    { [panel |-> FALSE, patient |-> FALSE, lab |-> SomeSamples,
       sources |-> [live : BOOLEAN, api : BOOLEAN]],
      [panel |-> TRUE, patient |-> TRUE, lab |-> OneSample,
       sources |-> {[live |-> FALSE, api |-> TRUE]}] }

WatchersVisit == {v \in BothVisits : v.panel}
=============================================================================
