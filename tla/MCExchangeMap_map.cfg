SPECIFICATION Spec
CONSTANTS
  eNv = eNv
  gSp = gSp
  gLim = gLim
  yNv = yNv
  bMar = bMar
  cAut = cAut
  Tag <- MCTag
  InjectionTag = {yNv}
  Document <- MCDocument
  Value <- MCValue
  Word <- MCWord
  NoValue = NoValue
INVARIANTS MapTypeOK SignalsApart ResponsesHoldTheRows ReadBack
CHECK_DEADLOCK FALSE
