----------------------------- MODULE MCAddressBook -----------------------------
(* A contact whose login is another than the user's, so that the listen    *)
(* callback knows of it only after a search.  Contacts have nothing in     *)
(* common but, if they share a key, that one entry of the key maps.        *)
EXTENDS AddressBook

CONSTANTS l1, l2, k1

OneContact == {[login |-> l2, key |-> k1]}
=============================================================================
