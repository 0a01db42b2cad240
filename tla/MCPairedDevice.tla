---------------------------- MODULE MCPairedDevice ----------------------------
(* PairedDevice with interchangeable apps, hubs, codes, keys, addresses. *)
EXTENDS PairedDevice, TLC

Symmetric ==
  Permutations(Apps) \union Permutations(Hubs) \union Permutations(Codes)
  \union Permutations(Keys) \union Permutations(Addresses)

=============================================================================
