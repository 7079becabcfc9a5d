---------------------------- MODULE MCHttpServer ----------------------------
(* Two connections and two workers, with room for one in the queue.         *)
EXTENDS HttpServer
==============================================================================
