--------------------------- MODULE ConfigManager ---------------------------
(* cpp/src/config/config_manager.cpp: what a program gets out of            *)
(* config/binance.json.  The file is [kind, fields, ill_typed]: kind says   *)
(* whether load() can open and parse it, fields are the values it gives     *)
(* (Absent where it gives none), and ill_typed is the place, in the order   *)
(* of extraction, of the first field whose value has the wrong type (0:     *)
(* none).  An ill-typed proxy object is an ill-typed "enabled".             *)
EXTENDS Integers, Sequences

CONSTANTS Absent,        \* a key the file does not have
          Uninitialised  \* what an uninitialised int or bool may hold

DefaultConfig ==
  [base_url |-> "https://api.binance.com", proxy_host |-> "127.0.0.1",
   proxy_port |-> 7897, proxy_enabled |-> FALSE, timeout_ms |-> 30000,
   data_dir |-> "data"]

load(file) == file.kind = "object"

(* Mutant: the directory is read after the proxy block.                     *)
extraction_order_late_directory ==
  <<"base_url", "timeout_ms", "proxy_enabled", "proxy_host", "proxy_port",
    "data_dir">>

extraction_order ==
  <<"base_url", "timeout_ms", "data_dir", "proxy_enabled", "proxy_host",
    "proxy_port">>

(* The exception of an ill-typed field ends the extraction, and the         *)
(* half-filled struct is returned: strings that were not reached are empty, *)
(* the other members hold anything.                                         *)
extracted(file) ==
  {extraction_order[i] :
     i \in {j \in DOMAIN extraction_order :
              file.ill_typed = 0 \/ j < file.ill_typed}}

value(file, field) ==
  IF file.fields[field] = Absent THEN DefaultConfig[field] ELSE file.fields[field]

read(file, field, otherwise) ==
  IF field \in extracted(file) THEN value(file, field) ELSE otherwise

(* The struct, where uninitialised members hold port, enabled and timeout.  *)
filled_from(file, port, enabled, timeout) ==
  [base_url      |-> read(file, "base_url", ""),
   proxy_host    |-> read(file, "proxy_host", ""),
   proxy_port    |-> read(file, "proxy_port", port),
   proxy_enabled |-> read(file, "proxy_enabled", enabled),
   timeout_ms    |-> read(file, "timeout_ms", timeout),
   data_dir      |-> read(file, "data_dir", "")]

(* The configurations get_binance_config() may return after a load.         *)
get_binance_config(file) ==
  {filled_from(file, port, enabled, timeout) :
     port \in Uninitialised, enabled \in BOOLEAN, timeout \in Uninitialised}
=============================================================================
