----------------------------- MODULE MCConnPool ------------------------------
(* ConnPool for TLC.  Two connections and four threads: two can sleep while *)
(* two hold, and a newcomer can race a woken thread for a returned one.     *)
EXTENDS ConnPool
==============================================================================
