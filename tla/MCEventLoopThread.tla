------------------------- MODULE MCEventLoopThread --------------------------
(* EventLoopThread on small instances, and what the source says of it that  *)
(* the runs of the README refute.                                           *)
EXTENDS EventLoopThread

\* EventLoop.cc:93: quit() from another thread wakes the loop so that it leaves
\* while(!quit_).  The destructor relies on it to join: its quit() ends the
\* thread, whenever it is called after startLoop.
QuitEndsThread == owner = "joining" ~> thread = "done"

\* EventLoop.cc:89: quit() may be called from a thread that is not the loop's.
\* The call runs on an EventLoop that exists, from its start to its end.
QuitOnLiveLoop == Underway("quitting") => alive
=============================================================================
