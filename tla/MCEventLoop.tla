---------------------------- MODULE MCEventLoop ----------------------------
(* Two loops, one on each kind of kernel, and a thread without a loop.     *)
(* The posting relation is acyclic between loops: l2 posts to l1, which    *)
(* three functions are enough to leave with words in the pipe whose event  *)
(* its epoll does not report; main posts to l2.                            *)
EXTENDS EventLoop

CONSTANTS l1, l2, main, f1, f2, f3

MCLoops == {l1, l2}
MCCallers == {main}
MCPosts == {<<main, l2>>, <<l2, l1>>, <<l2, l2>>}
MCStoppable == {l1}
MCEveryWrite == {l2}
============================================================================
