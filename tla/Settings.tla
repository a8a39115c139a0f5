------------------------------ MODULE Settings ------------------------------
(***************************************************************************)
(* The settings of a process (app_settings.py): layers, each a function    *)
(* from the names it defines to their values, the last one first.  A       *)
(* process begins with Defaults and the Django settings, and a command may *)
(* add the file of `--extra-settings`, once, when its handle() is called.  *)
(* By then Django has imported every task module, and with the command its *)
(* own imports.                                                            *)
(*                                                                         *)
(* WORKERS is a dict, and queue names are contributed to it where it is.   *)
(***************************************************************************)
EXTENDS Naturals, Sequences, FiniteSets

NoWorkers == [q \in {} |-> 0]

Defaults == [WORKERS |-> NoWorkers, ENABLE_PROMETHEUS |-> FALSE, ATOMIC_JOBS |-> TRUE]

(* The layer in which a name is found. *)
Top(layers, name) ==
  CHOOSE i \in DOMAIN layers :
    /\ name \in DOMAIN layers[i]
    /\ \A k \in DOMAIN layers : k > i => name \notin DOMAIN layers[k]

Setting(layers, name) == layers[Top(layers, name)][name]

add_layer(layers, layer) == Append(layers, layer)

(* contribute_implied_queue_name for each queue of a set: the dict that is  *)
(* on top keeps the counts it has.  (Once the workers have been enumerated  *)
(* it raises, utils.py:109; a master contributes all its queues before.)    *)
setdefault(counts, queues) ==
  [q \in DOMAIN counts \cup queues |-> IF q \in DOMAIN counts THEN counts[q] ELSE 1]

Contribute(layers, queues) ==
  [layers EXCEPT ![Top(layers, "WORKERS")].WORKERS = setdefault(@, queues)]
=============================================================================
