----------------------------- MODULE Sequential -----------------------------
(* The parts that run alone and meet no other process, each on every       *)
(* bounded input: the readers of PhoneInputs, or a domain's discovery.     *)
EXTENDS PhoneInputs, DomainDiscovery

vars == <<inputVars, discoveryVars>>

Init == InputsInit /\ DiscoveryInit

Next ==
    \/ discoveries = 0 /\ InputsStep /\ UNCHANGED discoveryVars
    \/ {typed, page, line} = {<<>>} /\ DiscoveryStep /\ UNCHANGED inputVars

Spec == Init /\ [][Next]_vars
=============================================================================
