---------------------------- MODULE MCTcpSession ----------------------------
(* A small instance of TcpSession: a guest whose TCP sends again and       *)
(* closes, and a peer that refuses, connects late or closes first.         *)
EXTENDS TcpSession
=============================================================================
