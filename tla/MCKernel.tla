------------------------------- MODULE MCKernel -------------------------------
(* Small instances of Kernel for TLC.                                      *)
EXTENDS Kernel, MCEnv

\* Nothing; a page; two pages; page tables at UVPT; a page of the kernel.
Areas == {{}, {<<0, 0>>}, {<<0, 1>>, <<1, 1>>}, {<<2, 1>>}, {<<1, 1>>, <<3, 0>>}}
=============================================================================
