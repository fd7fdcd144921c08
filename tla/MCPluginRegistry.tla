-------------------------- MODULE MCPluginRegistry --------------------------
(* All compositions of three plugins over two capabilities.                                 *)
EXTENDS PluginRegistry

MCCapabilities == {"plan", "image"}
=============================================================================
