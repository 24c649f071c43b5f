------------------------------ MODULE MCDaemon ------------------------------
(* Two clients, a tunnel with and one without DNS servers, every failure.    *)
EXTENDS Daemon, TLC

Symmetry == Permutations(Clients)

\* Once dnsRisk holds no property looks at resolv.conf or its copies, and no other
\* variable ever depends on them: such states are told apart by the others alone.
View ==
    <<threadVars, serving, active, settings, vpnIface, cgVars, wgVars, nft, history,
      IF dnsRisk THEN <<>> ELSE dnsVars>>

=============================================================================
