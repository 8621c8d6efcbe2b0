---------------------------- MODULE MCHypervisor ----------------------------
(* Guest images that fit the guest memory, and one that does not.           *)
EXTENDS Hypervisor

TheImages == {<<1>>, <<2, 3>>, <<4, 4, 4>>}

=============================================================================
