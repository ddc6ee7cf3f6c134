\* The operations of the OFD service on one document, closed at any time.
SPECIFICATION Spec
CONSTANTS
  ofd = ofd
  document = document
  other = other
  signatures = signatures
  public = public
  private = private
  annotations = annotations
  p1 = p1
  p2 = p2
  a4 = a4
  a5 = a5
  none = none
  Name <- MCName
  OFDXml = ofd
  DocumentNames <- MCDocumentNames
  SignaturesXml = signatures
  ResourceNames <- MCResourceNames
  AnnotationsXml = annotations
  NotGiven = none
  Box <- MCBox
  Packages <- MCPackages
INVARIANTS
  NumberNamesPage
  TextHasEveryPage
  SealsAgree
PROPERTIES
  ImplementsPageSource
