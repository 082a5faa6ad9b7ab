-------------------------- MODULE MCComponentUpdate --------------------------
(* Model values for ComponentUpdate: a script and a resource without size, *)
(* a package with one.  Three files let a retry find the queue empty or    *)
(* not; two launches make a retry; one redirection is that of any file.    *)
EXTENDS ComponentUpdate

CONSTANTS script, package, resource

MCFiles == {script, package, resource}
MCSized == {package}
MCBatch == <<script, package, resource>>
=============================================================================
