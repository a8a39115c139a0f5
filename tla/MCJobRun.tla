------------------------------ MODULE MCJobRun ------------------------------
(* Values for the constants of JobRun that a .cfg cannot write. *)
EXTENDS JobRun

(* One with every hook (such as LoggingMiddleware), one that only brackets   *)
(* jobs, and one that only reports.                                          *)
ThreeMiddlewares ==
  << {"process_job", "process_result", "process_exception"},
     {"process_job", "process_result"},
     {"process_result", "process_exception"} >>
=============================================================================
