SPECIFICATION Spec
CONSTANTS
  Width = 2
  Height = 2
  Letters = {"a", "n"}
  Signed = {"n"}
  Colors = {"gray", "inverse"}
  Strings <- MCStrings
  Attrs <- MCAttrs
  Logos <- MCLogos
  MaxScroll = 4
INVARIANTS
  InFrame
  ShowsText
