--------------------------------- MODULE Dll ---------------------------------
(***************************************************************************)
(* The doubly linked lists of GNUnet (gnunet_container_lib.h), which the   *)
(* library and the service keep their queues, subscriptions and clients    *)
(* in.  A list is the sequence of its elements from head to tail:          *)
(* DLL_insert is Cons, DLL_insert_tail is Append, DLL_remove is Unlink,    *)
(* and the elements of a list are ToSet of it.                             *)
(***************************************************************************)
EXTENDS Naturals, SequencesExt

IndexOf(s, e) == CHOOSE i \in DOMAIN s : s[i] = e

\* GNUNET_CONTAINER_DLL_remove of an element that is in the list.
Unlink(s, e) == RemoveAt(s, IndexOf(s, e))
=============================================================================
