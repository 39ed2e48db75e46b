---------------------------- MODULE MCDeployment ----------------------------
(* A small instance of Deployment.                                         *)
EXTENDS Deployment

CONSTANTS http, grpc, a1, a2, a3
=============================================================================
