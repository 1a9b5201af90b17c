--------------------------- MODULE MCProvisioning ---------------------------
(* Two images, three transactions and a sequence that wraps at once.       *)
EXTENDS Provisioning
=============================================================================
