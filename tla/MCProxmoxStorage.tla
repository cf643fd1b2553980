---------------------------- MODULE MCProxmoxStorage ---------------------------
EXTENDS ProxmoxStorage

(* Two names; a download and a file of this host, of the same base name.   *)
MCName == {"image", "base"}
MCSource == {"url", "file"}
MCIsUrl == [s \in MCSource |-> s = "url"]
MCBaseName == [s \in MCSource |-> "base"]
================================================================================
