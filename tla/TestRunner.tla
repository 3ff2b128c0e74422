----------------------------- MODULE TestRunner -----------------------------
(***************************************************************************)
(* tools/kernel_test_runner: cargo calls it with the ELF file of a test    *)
(* kernel.  It makes an image, starts QEMU on it and polls until QEMU ends *)
(* or the time is up; then it kills and reaps QEMU, removes the image and  *)
(* reports.  QEMU is a process of its own and may end between any two      *)
(* steps, or never; every call of the operating system may fail.           *)
(***************************************************************************)
EXTENDS Integers

CONSTANTS Timeouts,     \* what KERNEL_TEST_TIMEOUT_SECONDS may ask for
          LastInstant,  \* the greatest Instant; the clock starts at 0
          Nap,          \* the pause between two polls
          MaxNow        \* bound: the clock stops here

ASSUME RunnerAssumption ==
    /\ Timeouts \subseteq Nat
    /\ LastInstant \in Nat /\ Nap \in Nat \ {0} /\ MaxNow \in Nat

VARIABLES
    rpc,        \* where run or wait_with_timeout is
    timeout, deadline, wake,
    verdict,    \* the Result of run
    image,      \* the file next to the ELF file: absent, present, or still
                \* there because its removal failed (stuck)
    qemu,       \* the child: none, running, exited (not reaped yet), reaped
    status,     \* how it ended: zero, nonzero, killed
    killed,     \* SIGKILL is on its way
    endedAt,    \* history: rpc when QEMU ended by itself
    now

child      == <<qemu, status, killed, endedAt>>
runnerVars == <<rpc, timeout, deadline, wake, verdict, image, child, now>>

RunnerInit ==
    /\ rpc = "arguments" /\ timeout \in Timeouts /\ deadline = 0 /\ wake = 0
    /\ verdict = "none" /\ image \in {"absent", "present"}
    /\ qemu = "none" /\ status = "none" /\ killed = FALSE /\ endedAt = "none"
    /\ now = 0

Return(v) == verdict' = v /\ rpc' = "done"

-----------------------------------------------------------------------------
(* run, from its argument to the child process.                            *)

\* Without an argument run returns its usage.
Arguments ==
    /\ rpc = "arguments"
    /\ \/ rpc' = "make_image" /\ verdict' = verdict
       \/ Return("error")
    /\ UNCHANGED <<timeout, deadline, wake, image, child, now>>

\* rust-objcopy may be missing, or fail with or without a file left behind.
MakeImage ==
    /\ rpc = "make_image"
    /\ \/ image' = "present" /\ rpc' = "environment" /\ verdict' = verdict
       \/ image' \in {"absent", "present"} /\ Return("error")
    /\ UNCHANGED <<timeout, deadline, wake, child, now>>

\* KERNEL_TEST_QEMU may be unset.
RequiredEnv ==
    /\ rpc = "environment"
    /\ \/ rpc' = "spawn" /\ verdict' = verdict
       \/ Return("error")
    /\ UNCHANGED <<timeout, deadline, wake, image, child, now>>

Spawn ==
    /\ rpc = "spawn"
    /\ \/ qemu' = "running" /\ rpc' = "deadline" /\ verdict' = verdict
       \/ qemu' = qemu /\ Return("error")
    /\ UNCHANGED <<timeout, deadline, wake, image, status, killed, endedAt, now>>

-----------------------------------------------------------------------------
(* wait_with_timeout.                                                      *)

\* Instant + Duration panics when it overflows.
SetDeadline ==
    /\ rpc = "deadline"
    /\ IF now + timeout > LastInstant
       THEN Return("panicked") /\ deadline' = deadline
       ELSE /\ deadline' = now + timeout
            /\ rpc' = "try_wait" /\ verdict' = verdict
    /\ UNCHANGED <<timeout, wake, image, child, now>>

\* An error of try_wait, kill or wait ends the loop at once.
WaitFails ==
    /\ rpc \in {"try_wait", "kill", "reap"}
    /\ verdict' = "error" /\ rpc' = "remove"
    /\ UNCHANGED <<timeout, deadline, wake, image, child, now>>

\* Fault variant: the deadline is looked at before the child.
TryWait_DeadlineFirst ==
    /\ rpc = "try_wait"
    /\ IF now >= deadline
       THEN rpc' = "kill" /\ UNCHANGED <<verdict, qemu>>
       ELSE IF qemu = "exited"
       THEN /\ qemu' = "reaped" /\ rpc' = "remove"
            /\ verdict' = IF status = "zero" THEN "success" ELSE "failed"
       ELSE rpc' = "compare" /\ UNCHANGED <<verdict, qemu>>
    /\ UNCHANGED <<timeout, deadline, wake, image, status, killed, endedAt, now>>

TryWait ==
    /\ rpc = "try_wait"
    /\ IF qemu = "exited"
       THEN /\ qemu' = "reaped" /\ rpc' = "remove"
            /\ verdict' = IF status = "zero" THEN "success" ELSE "failed"
       ELSE rpc' = "compare" /\ UNCHANGED <<verdict, qemu>>
    /\ UNCHANGED <<timeout, deadline, wake, image, status, killed, endedAt, now>>

Compare ==
    /\ rpc = "compare"
    /\ IF now < deadline
       THEN rpc' = "sleep" /\ wake' = now + Nap
       ELSE rpc' = "kill" /\ wake' = wake
    /\ UNCHANGED <<timeout, deadline, verdict, image, child, now>>

Sleep ==
    /\ rpc = "sleep" /\ now >= wake
    /\ rpc' = "try_wait"
    /\ UNCHANGED <<timeout, deadline, wake, verdict, image, child, now>>

\* Fault variants: the child is killed but not reaped, or not killed at all.
Kill_NoReap ==
    /\ rpc = "kill"
    /\ killed' = TRUE /\ verdict' = "timed_out" /\ rpc' = "remove"
    /\ UNCHANGED <<timeout, deadline, wake, image, qemu, status, endedAt, now>>

Kill_Forgotten ==
    /\ rpc = "kill"
    /\ rpc' = "reap"
    /\ UNCHANGED <<timeout, deadline, wake, verdict, image, child, now>>

Kill ==
    /\ rpc = "kill"
    /\ killed' = TRUE /\ rpc' = "reap"
    /\ UNCHANGED <<timeout, deadline, wake, verdict, image, qemu, status,
                   endedAt, now>>

\* child.wait blocks until the child has ended.
Reap ==
    /\ rpc = "reap" /\ qemu = "exited"
    /\ qemu' = "reaped" /\ verdict' = "timed_out" /\ rpc' = "remove"
    /\ UNCHANGED <<timeout, deadline, wake, image, status, killed, endedAt, now>>

\* Whatever the result of the loop; an error of remove_file is ignored.
RemoveImage ==
    /\ rpc = "remove"
    /\ image' \in {"absent", "stuck"} /\ rpc' = "done"
    /\ UNCHANGED <<timeout, deadline, wake, verdict, child, now>>

-----------------------------------------------------------------------------
(* QEMU and the clock.                                                     *)

QemuExits ==
    /\ qemu = "running"
    /\ qemu' = "exited" /\ status' \in {"zero", "nonzero"} /\ endedAt' = rpc
    /\ UNCHANGED <<rpc, timeout, deadline, wake, verdict, image, killed, now>>

QemuDies ==
    /\ qemu = "running" /\ killed
    /\ qemu' = "exited" /\ status' = "killed"
    /\ UNCHANGED <<rpc, timeout, deadline, wake, verdict, image, killed, endedAt,
                   now>>

\* The clock matters once the deadline is set.
Tick ==
    /\ now < MaxNow
    /\ rpc \notin {"arguments", "make_image", "environment", "spawn", "deadline"}
    /\ now' = now + 1
    /\ UNCHANGED <<rpc, timeout, deadline, wake, verdict, image, child>>

Loop == TryWait \/ Compare \/ Sleep \/ Kill \/ Reap
Runner == Arguments \/ MakeImage \/ RequiredEnv \/ Spawn \/ SetDeadline \/ Loop
          \/ RemoveImage
RunnerNext == Runner \/ WaitFails \/ QemuExits \/ QemuDies \/ Tick

\* The runner runs, the clock advances and SIGKILL arrives.  QEMU never has to
\* end, and no call has to fail.
RunnerSpec == /\ RunnerInit /\ [][RunnerNext]_runnerVars
              /\ WF_runnerVars(Runner) /\ WF_runnerVars(QemuDies) /\ WF_runnerVars(Tick)

-----------------------------------------------------------------------------
(* Properties.                                                             *)

\* Every variable holds a value of its type.
TypeOK ==
    /\ rpc \in {"arguments", "make_image", "environment", "spawn", "deadline",
               "try_wait", "compare", "sleep", "kill", "reap", "remove", "done"}
    /\ timeout \in Timeouts /\ deadline \in 0..LastInstant
    /\ wake \in Nat /\ now \in Nat
    /\ verdict \in {"none", "success", "failed", "timed_out", "error", "panicked"}
    /\ image \in {"absent", "present", "stuck"} /\ killed \in BOOLEAN
    /\ qemu \in {"none", "running", "exited", "reaped"}
    /\ status \in {"none", "zero", "nonzero", "killed"}
    /\ endedAt \in {"none", "deadline", "try_wait", "compare", "sleep", "kill",
                    "reap", "remove", "done"}

\* The verdict is the truth about QEMU.  Success and failure are those of its
\* own exit status.  As wait_with_timeout polls before it looks at the clock,
\* however long a sleep lasts, a test is called timed out only behind its
\* deadline, and only if it had not ended when it was polled for the last time.
VerdictTruthful ==
    /\ verdict = "success" => qemu = "reaped" /\ status = "zero"
    /\ verdict = "failed" => qemu = "reaped" /\ status = "nonzero"
    /\ verdict = "timed_out" =>
         now >= deadline /\ endedAt \in {"none", "compare", "kill", "reap"}

\* What each outcome of the runner leaves behind.  A success, a failure and a
\* time-out leave neither a QEMU, not even a zombie, nor an image whose removal
\* was not tried.  An error leaves one of the two at most: the image, if QEMU was
\* not started, or QEMU, if a call on it failed.  The panic of an Instant that
\* overflows leaves both.
Removed == image # "present"
LeftoversOnlyOnError ==
    rpc = "done" =>
        \/ verdict \in {"success", "failed", "timed_out"} /\ qemu = "reaped" /\ Removed
        \/ verdict = "error" /\ qemu = "none"
        \/ verdict = "error" /\ Removed
        \/ verdict = "panicked" /\ timeout > LastInstant - now

\* A test kernel that hangs does not hang the test suite.
RunnerEnds == <>(rpc = "done")
=============================================================================
