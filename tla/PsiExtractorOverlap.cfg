SPECIFICATION Spec
CONSTANTS
  TSPacketLen = 9
  CCMod = 2
  RequestedSize = 5
  InputBytes = {0, 2, 255}
  InputAFC = {1}
  CopyOrders = {"ascending", "descending"}
PROPERTIES RestCopied
