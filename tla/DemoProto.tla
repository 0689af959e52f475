------------------------------ MODULE DemoProto ------------------------------
(***************************************************************************)
(* The messages and services of src/frontend/protos/demo.ts.  A message is *)
(* its list of fields, and what the generated functions do with it is the  *)
(* template Message, one instance for each depth of nesting: the functions *)
(* of a message call those of the messages in it, which nest less deep.    *)
(***************************************************************************)
EXTENDS Integers, Sequences

CONSTANTS
  Undefined,   \* JavaScript's undefined, an absent message
  MaxSafe      \* Number.MAX_SAFE_INTEGER, small

ASSUME MaxSafeAssumption == MaxSafe \in Nat

-----------------------------------------------------------------------------
(* The kinds of fields. *)

Field(num, name, kind, of, repeated) ==
  [num |-> num, name |-> name, kind |-> kind, of |-> of, repeated |-> repeated]

String(num, name) == Field(num, name, "string", <<>>, FALSE)
Strings(num, name) == Field(num, name, "string", <<>>, TRUE)
Int32(num, name) == Field(num, name, "int32", <<>>, FALSE)
Int64(num, name) == Field(num, name, "int64", <<>>, FALSE)
Bool(num, name) == Field(num, name, "bool", <<>>, FALSE)
Sub(num, name, message) == Field(num, name, "message", message, FALSE)
Subs(num, name, message) == Field(num, name, "message", message, TRUE)

-----------------------------------------------------------------------------
(* The messages. *)

CartItem == <<String(1, "productId"), Int32(2, "quantity")>>
AddItemRequest == <<String(1, "userId"), Sub(2, "item", CartItem)>>
EmptyCartRequest == <<String(1, "userId")>>
GetCartRequest == <<String(1, "userId")>>
Cart == <<String(1, "userId"), Subs(2, "items", CartItem)>>
Empty == <<>>
ListRecommendationsRequest ==
  <<String(1, "userId"), Strings(2, "productIds")>>
ListRecommendationsResponse == <<Strings(1, "productIds")>>
Money == <<String(1, "currencyCode"), Int64(2, "units"), Int32(3, "nanos")>>
Product ==
  <<String(1, "id"), String(2, "name"), String(3, "description"),
    String(4, "picture"), Sub(5, "priceUsd", Money),
    Strings(6, "categories")>>
ListProductsResponse == <<Subs(1, "products", Product)>>
GetProductRequest == <<String(1, "id")>>
SearchProductsRequest == <<String(1, "query")>>
SearchProductsResponse == <<Subs(1, "results", Product)>>
Address ==
  <<String(1, "streetAddress"), String(2, "city"), String(3, "state"),
    String(4, "country"), String(5, "zipCode")>>
GetQuoteRequest == <<Sub(1, "address", Address), Subs(2, "items", CartItem)>>
GetQuoteResponse == <<Sub(1, "costUsd", Money)>>
ShipOrderRequest ==
  <<Sub(1, "address", Address), Subs(2, "items", CartItem)>>
ShipOrderResponse == <<String(1, "trackingId")>>
GetSupportedCurrenciesResponse == <<Strings(1, "currencyCodes")>>
CurrencyConversionRequest == <<Sub(1, "from", Money), String(2, "toCode")>>
CreditCardInfo ==
  <<String(1, "creditCardNumber"), Int32(2, "creditCardCvv"),
    Int32(3, "creditCardExpirationYear"),
    Int32(4, "creditCardExpirationMonth")>>
ChargeRequest ==
  <<Sub(1, "amount", Money), Sub(2, "creditCard", CreditCardInfo)>>
ChargeResponse == <<String(1, "transactionId")>>
OrderItem == <<Sub(1, "item", CartItem), Sub(2, "cost", Money)>>
OrderResult ==
  <<String(1, "orderId"), String(2, "shippingTrackingId"),
    Sub(3, "shippingCost", Money), Sub(4, "shippingAddress", Address),
    Subs(5, "items", OrderItem)>>
SendOrderConfirmationRequest ==
  <<String(1, "email"), Sub(2, "order", OrderResult)>>
PlaceOrderRequest ==
  <<String(1, "userId"), String(2, "userCurrency"),
    Sub(3, "address", Address), String(5, "email"),
    Sub(6, "creditCard", CreditCardInfo)>>
PlaceOrderResponse == <<Sub(1, "order", OrderResult)>>
AdRequest == <<Strings(1, "contextKeys")>>
Ad == <<String(1, "redirectUrl"), String(2, "text")>>
AdResponse == <<Subs(1, "ads", Ad)>>
Flag == <<String(1, "name"), String(2, "description"), Bool(3, "enabled")>>
GetFlagRequest == <<String(1, "name")>>
GetFlagResponse == <<Sub(1, "flag", Flag)>>
CreateFlagRequest ==
  <<String(1, "name"), String(2, "description"), Bool(3, "enabled")>>
CreateFlagResponse == <<Sub(1, "flag", Flag)>>
UpdateFlagRequest == <<String(1, "name"), Bool(2, "enabled")>>
UpdateFlagResponse == <<>>
ListFlagsRequest == <<>>
ListFlagsResponse == <<Subs(1, "flag", Flag)>>
DeleteFlagRequest == <<String(1, "name")>>
DeleteFlagResponse == <<>>

-----------------------------------------------------------------------------
(* The services: a call's name, its request and its response. *)

Rpc(name, request, response) ==
  [name |-> name, request |-> request, response |-> response]

CartServiceService ==
  {Rpc("addItem", AddItemRequest, Empty),
   Rpc("getCart", GetCartRequest, Cart),
   Rpc("emptyCart", EmptyCartRequest, Empty)}
RecommendationServiceService ==
  {Rpc("listRecommendations",
       ListRecommendationsRequest, ListRecommendationsResponse)}
ProductCatalogServiceService ==
  {Rpc("listProducts", Empty, ListProductsResponse),
   Rpc("getProduct", GetProductRequest, Product),
   Rpc("searchProducts", SearchProductsRequest, SearchProductsResponse)}
ShippingServiceService ==
  {Rpc("getQuote", GetQuoteRequest, GetQuoteResponse),
   Rpc("shipOrder", ShipOrderRequest, ShipOrderResponse)}
CurrencyServiceService ==
  {Rpc("getSupportedCurrencies", Empty, GetSupportedCurrenciesResponse),
   Rpc("convert", CurrencyConversionRequest, Money)}
PaymentServiceService ==
  {Rpc("charge", ChargeRequest, ChargeResponse)}
EmailServiceService ==
  {Rpc("sendOrderConfirmation", SendOrderConfirmationRequest, Empty)}
CheckoutServiceService ==
  {Rpc("placeOrder", PlaceOrderRequest, PlaceOrderResponse)}
AdServiceService ==
  {Rpc("getAds", AdRequest, AdResponse)}
FeatureFlagServiceService ==
  {Rpc("getFlag", GetFlagRequest, GetFlagResponse),
   Rpc("createFlag", CreateFlagRequest, CreateFlagResponse),
   Rpc("updateFlag", UpdateFlagRequest, UpdateFlagResponse),
   Rpc("listFlags", ListFlagsRequest, ListFlagsResponse),
   Rpc("deleteFlag", DeleteFlagRequest, DeleteFlagResponse)}

-----------------------------------------------------------------------------
(* The messages by depth: in the ones of Depth1 no message is nested.  The *)
(* deepest is PlaceOrderResponse: its order has items, which have an item. *)

NoType(T) == FALSE
NoInt64s(T, m) == {}
Never(T, m) == FALSE
Kept(T, m) == m

Depth1 == INSTANCE Message WITH
  NestedType <- NoType, NestedIs <- Never, NestedInt64s <- NoInt64s,
  NestedEncode <- Kept, NestedDecode <- Kept, NestedRefuses <- Never,
  NestedToJSON <- Kept,
  NestedStringified <- Kept,
  NestedFromPartial <- Kept

Depth2 == INSTANCE Message WITH
  NestedType <- Depth1!IsType, NestedIs <- Depth1!Is, NestedInt64s <- Depth1!Int64s,
  NestedEncode <- Depth1!Encode, NestedDecode <- Depth1!Decode, NestedRefuses <- Depth1!Refuses,
  NestedToJSON <- Depth1!ToJSON,
  NestedStringified <- Depth1!Stringified,
  NestedFromPartial <- Depth1!FromPartial

Depth3 == INSTANCE Message WITH
  NestedType <- Depth2!IsType, NestedIs <- Depth2!Is, NestedInt64s <- Depth2!Int64s,
  NestedEncode <- Depth2!Encode, NestedDecode <- Depth2!Decode, NestedRefuses <- Depth2!Refuses,
  NestedToJSON <- Depth2!ToJSON,
  NestedStringified <- Depth2!Stringified,
  NestedFromPartial <- Depth2!FromPartial

INSTANCE Message WITH
  NestedType <- Depth3!IsType, NestedIs <- Depth3!Is, NestedInt64s <- Depth3!Int64s,
  NestedEncode <- Depth3!Encode, NestedDecode <- Depth3!Decode, NestedRefuses <- Depth3!Refuses,
  NestedToJSON <- Depth3!ToJSON,
  NestedStringified <- Depth3!Stringified,
  NestedFromPartial <- Depth3!FromPartial
=============================================================================
