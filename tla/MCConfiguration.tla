-------------------------- MODULE MCConfiguration --------------------------
(* Instances of Configuration for TLC: every text of the durations and of the *)
(* integers with one process, and every mode with and without its options.    *)
EXTENDS Configuration

Unset == [kind |-> "unset", n |-> 0]
Int0(n) == [kind |-> "int", n |-> n]

\* With 6 bits, 7 seconds fit, 8, 10 and 16 overflow (16 to 0), 40 is no int.
IntTexts == {Int0(n) : n \in {-40, -1, 0, 1, 7, 8, 10, 16, 40}}
Texts == {Unset} \cup IntTexts
  \cup {[kind |-> k, n |-> 0] : k \in {"empty", "word", "duration"}}
  \cup {[kind |-> "duration", n |-> n] : n \in {-1, 3}}

Base == [write_timeout |-> Unset, read_timeout |-> Unset, exec_timeout |-> Unset,
         healthcheck_interval |-> Unset, port |-> Unset, max_inflight |-> Unset,
         log_buffer_size |-> Unset, fprocess |-> "given", function_process |-> "unset",
         upstream_url |-> "given", http_upstream_url |-> "unset", static_path |-> "unset",
         mode |-> ""]

\* The interval depends on the write timeout; the other variables on nothing else.
MCEnvs ==
  {[Base EXCEPT !.write_timeout = w, !.healthcheck_interval = h, !.exec_timeout = e,
                !.read_timeout = e] : w, h, e \in Texts}
  \cup {[Base EXCEPT !.port = p, !.max_inflight = p, !.log_buffer_size = b] : p, b \in Texts}
  \cup {[Base EXCEPT !.mode = m, !.fprocess = f1, !.function_process = f2,
                     !.upstream_url = u1, !.http_upstream_url = u2, !.static_path = s] :
         m \in Modes \cup {"", "other"}, f1, f2, s \in Words, u1, u2 \in URLs}

=============================================================================
