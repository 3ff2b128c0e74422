---------------------------- MODULE MCKernelBoot ----------------------------
EXTENDS KernelBoot

\* The kernel of a board, the same under QEMU, and the two test kernels.
AllPrograms == {"kernel", "boot_test", "page_fault", "syscall"}
\* One page, and a code of 62.5 MiB: far more than a kernel has, below all MMIO.
MCCodePages == {1, 1000}
=============================================================================
