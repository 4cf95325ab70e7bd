------------------------------ MODULE SyncTypes ------------------------------
(***************************************************************************)
(* The kinds of call (LockedObjects) that the methods of the sync types    *)
(* are, one set for each stretch of the source; the methods of the less    *)
(* common kinds are named.  A method with a second operand has the kind    *)
(* of its call with another sync object; with a plain value it is a read   *)
(* or an update.  Static methods, constructors and methods that touch no   *)
(* value are left out.                                                     *)
(*                                                                         *)
(* nestRead is whatever evaluates its operand with the lock held: the      *)
(* comparisons of SyncInt (other.get()), the reflected operators that      *)
(* SyncBool leaves to its operand, and methods of str that call __index__, *)
(* __str__, __getitem__ or __iter__ of an argument.                        *)
(***************************************************************************)

SyncIntGetToConjugate ==
  {"read", "set"}

\* nestRead: to_bytes, __eq__.
SyncIntToBytesToFormat ==
  {"read", "pairRead", "nestRead"}

\* nestRead: __ge__, __gt__, __le__, __lt__, __pow__.
SyncIntGeToPow ==
  {"read", "pairRead", "nestRead"}

\* nestRead: __round__.
SyncIntRpowToRshift ==
  {"read", "pairRead", "nestRead"}

SyncIntRsubToImag ==
  {"read", "pairRead"}

SyncIntGetnewargsToInt ==
  {"read"}

\* nestRead: __ne__, safe_pow.
SyncIntNeToApplyIpOp ==
  {"read", "update", "pairRead", "pairUpdate", "nestRead"}

SyncIntIaddToGetnewargsEx ==
  {"read", "pairUpdate"}

SyncFloatApplyInplaceOpToTruediv ==
  {"read", "set", "update", "pairRead", "pairUpdate"}

SyncFloatFloordivToIfloordiv ==
  {"pairRead", "pairUpdate"}

SyncFloatImodToBool ==
  {"read", "pairRead", "pairUpdate"}

\* nestRead: __round__.
SyncFloatHashToStr ==
  {"read", "pairRead", "nestRead"}

SyncFloatFormatToGetnewargs ==
  {"read"}

SyncFloatDivmodToRdivmod ==
  {"pairRead"}

SyncFloatReal ==
  {"read"}

SyncFloatIncrementToDecrement ==
  {"update", "pairUpdate"}

SyncBoolApplyIpOp ==
  {"update", "pairUpdate"}

SyncBoolGetToToggle ==
  {"read", "set", "update"}

SyncBoolIntToInvert ==
  {"read", "pairRead"}

SyncBoolRandToRxor ==
  {"read", "pairRead"}

\* nestRead: __add__, __sub__, __mul__, __truediv__, __floordiv__.
SyncBoolRaddToFloordiv ==
  {"read", "nestRead"}

\* nestRead: __mod__, __pow__.
SyncBoolModToIxor ==
  {"pairUpdate", "nestRead"}

\* nestRead: center, count, endswith, expandtabs, find.
SyncStringApplyIpOpToFind ==
  {"read", "set", "update", "pairRead", "pairUpdate", "nestRead"}

\* nestRead: format, format_map, index, join.
SyncStringFormatToJoin ==
  {"read", "nestRead"}

\* nestRead: ljust, replace, rfind, rindex, rjust, rsplit, split.
SyncStringLjustToSplit ==
  {"read", "nestRead"}

\* nestRead: splitlines, startswith, translate, zfill.
SyncStringSplitlinesToGe ==
  {"read", "pairRead", "nestRead"}

\* nestRead: __mul__, __getitem__, __mod__.
SyncStringAddToGetnewargs ==
  {"read", "pairRead", "pairUpdate", "nestRead"}

\* nestRead: __getattr__.
\* nestUpdate: __imul__.
SyncStringCopyToImul ==
  {"read", "nestRead", "nestUpdate"}

SyncStringRmod ==
  {"read"}

\* nestRead: transform.
\* nestUpdate: update, modify, locked, __enter__, __exit__.
\* apart: __eq__.
SyncRefGetToEq ==
  {"read", "set", "update", "nestRead", "nestUpdate", "apart"}

SyncRefHashToGetstate ==
  {"read"}

SyncIntKinds == UNION {
  SyncIntGetToConjugate, SyncIntToBytesToFormat, SyncIntGeToPow,
  SyncIntRpowToRshift, SyncIntRsubToImag, SyncIntGetnewargsToInt,
  SyncIntNeToApplyIpOp, SyncIntIaddToGetnewargsEx}

SyncFloatKinds == UNION {
  SyncFloatApplyInplaceOpToTruediv, SyncFloatFloordivToIfloordiv,
  SyncFloatImodToBool, SyncFloatHashToStr, SyncFloatFormatToGetnewargs,
  SyncFloatDivmodToRdivmod, SyncFloatReal, SyncFloatIncrementToDecrement}

SyncBoolKinds == UNION {
  SyncBoolApplyIpOp, SyncBoolGetToToggle, SyncBoolIntToInvert,
  SyncBoolRandToRxor, SyncBoolRaddToFloordiv, SyncBoolModToIxor}

SyncStringKinds == UNION {
  SyncStringApplyIpOpToFind, SyncStringFormatToJoin, SyncStringLjustToSplit,
  SyncStringSplitlinesToGe, SyncStringAddToGetnewargs, SyncStringCopyToImul,
  SyncStringRmod}

SyncRefKinds == UNION {
  SyncRefGetToEq, SyncRefHashToGetstate}

=============================================================================
