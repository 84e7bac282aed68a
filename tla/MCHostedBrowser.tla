---------------------------- MODULE MCHostedBrowser ----------------------------
(* Constants of HostedBrowser for TLC, and its initial states up to the       *)
(* numbering of the calls.                                                    *)
EXTENDS HostedBrowser, Sequences

\* An admissible command line.
Ask(s, p, cap) ==
    [session |-> s, provider |-> p, cap |-> cap, tier |-> "A", confirmed |-> FALSE,
     optIn |-> TRUE, keyed |-> TRUE, limitsValid |-> TRUE]

\* Two sessions, caps that fit into the daily cap twice or once; a command line
\* with the confirmation it needs, one without, and one without opt-in.
MCCommandLines ==
    <<[Ask("s1", "cloud", 1) EXCEPT !.tier = "C", !.confirmed = TRUE],
      Ask("s1", "browserbase", 2),
      Ask("s2", "cloud", 2),
      [Ask("s1", "cloud", 1) EXCEPT !.tier = "C"],
      [Ask("s1", "cloud", 1) EXCEPT !.optIn = FALSE]>>

MCRequests == {MCCommandLines[i] : i \in DOMAIN MCCommandLines}

\* Calls differ in their command lines only, so sorted ones are enough.
MCInit ==
    /\ Init
    /\ \E line \in [1..NumCalls -> DOMAIN MCCommandLines] :
          /\ \A c, d \in 1..NumCalls : c < d => line[c] <= line[d]
          /\ req = [c \in 1..NumCalls |-> MCCommandLines[line[c]]]

MCSpec == MCInit /\ [][Next]_vars /\ Fairness
==============================================================================
